---- MODULE Spec2Model ----
(***************************************************************************)
(* Tasklink: synchronisation of Canvas assignments into Todoist.           *)
(*                                                                         *)
(* The module models the record store (Prisma), the Todoist task list,     *)
(* the sync cycle syncAssignmentsToTodoist, the fetch cycle                *)
(* fetchAndStoreUpcomingAssignments and the priority functions of          *)
(* backend/src/services/todoistService.ts, and the request handlers and    *)
(* the auto-sync scheduler of the server (unnamed/part_001).               *)
(*                                                                         *)
(* Time is counted in hours since an epoch; a Date is an integer number of *)
(* hours, a calendar day is hours \div 24. Absent values (null, undefined) *)
(* are Null in integer fields and NoProject / NoUser in string fields.     *)
(***************************************************************************)
EXTENDS Integers, Sequences, FiniteSets, TLC

VARIABLES
    todoistAccount,  \* users that have a TodoistAccount row
    canvasAccount,   \* users that have a CanvasAccount row
    courses,         \* Course table: course id -> row
    assignments,     \* Assignment table: assignment id -> row
    syncRuns,        \* SyncRun table: sequence of rows, the id is the index
    tasks,           \* Todoist: task id -> task
    now,             \* the current instant, in hours
    tzOffset,        \* the server's timezone offset from UTC, in hours
    run,             \* the sync cycle in flight, per slot
    fetch,           \* the fetch cycle in flight
    prev,            \* history: the sync cycle that ended last
    faults,          \* history: the requests that failed so far
    calc,            \* one application of the priority functions
    auto             \* the auto-sync scheduler of the server process

vars == <<todoistAccount, canvasAccount, courses, assignments, syncRuns, tasks,
          now, tzOffset, run, fetch, prev, faults, calc, auto>>

(***************************************************************************)
(* Absent values.                                                          *)
(***************************************************************************)
Null == 0
NoProject == "none"
NoUser == "nobody"
Missing == <<>>

\* x ?? d, for an optional input field held as <<>> or <<v>>
OrElse(x, d) == IF x = Missing THEN d ELSE x[1]

(***************************************************************************)
(* Dates. The server reads the parts of a Date with the local getters      *)
(* (getFullYear, getMonth, getDate) and builds local midnights with        *)
(* new Date(y, m, d): both depend on the server's timezone offset.         *)
(***************************************************************************)
HoursPerDay == 24

\* the calendar day on which instant t falls in a zone `tz` hours from UTC
LocalDay(t, tz) == (t + tz) \div HoursPerDay

\* new Date(d.getFullYear(), d.getMonth(), d.getDate())
LocalMidnight(t, tz) == HoursPerDay * LocalDay(t, tz) - tz

\* Date.UTC(year, month, day, 12, 0, 0)
MiddayUTC(day) == HoursPerDay * day + 12

\* Math.round(ms / (1000 * 60 * 60 * 24)), on hours
RoundDays(hours) == (2 * hours + HoursPerDay) \div (2 * HoursPerDay)

toTodoistDate(date, tz) == IF date = Null THEN Null ELSE LocalDay(date, tz)

(***************************************************************************)
(* Priority buckets.                                                       *)
(***************************************************************************)
PriorityKeys == {"p1", "p2", "p3", "p4"}
order == <<"p1", "p2", "p3", "p4">>

IndexOf(bucket) == CHOOSE i \in 1..4 : order[i] = bucket

clampDay(value) ==
    IF value <= 1 THEN 1
    ELSE IF value = 2 THEN 2
    ELSE IF value = 3 THEN 3
    ELSE IF value = 4 THEN 4
    ELSE 5

DefaultEnabled(k) == k # "p4"
DefaultTo(k) == CASE k = "p1" -> 2 [] k = "p2" -> 3 [] k = "p3" -> 4 [] OTHER -> 5
DefaultPriority(k) == CASE k = "p1" -> 4 [] k = "p2" -> 3 [] k = "p3" -> 2 [] OTHER -> 1

\* A PriorityRangeInput with every field absent, and a PrioritySettingsInput
\* that is undefined (or gives no bucket).
NoRange == [enabled |-> Missing, to |-> Missing, todoistPriority |-> Missing]
NoSettings == [k \in PriorityKeys |-> NoRange]

\* the defaults and the clamp, without the ordering of the cuts
normalizeWithoutOrdering(settings) ==
    [k \in PriorityKeys |->
        [enabled |-> OrElse(settings[k].enabled, DefaultEnabled(k)),
         to |-> IF k = "p4" THEN 5 ELSE clampDay(OrElse(settings[k].to, DefaultTo(k))),
         todoistPriority |-> OrElse(settings[k].todoistPriority, DefaultPriority(k))]]

normalizePrioritySettings(settings) ==
    LET base == [k \in PriorityKeys |->
                    [enabled |-> OrElse(settings[k].enabled, DefaultEnabled(k)),
                     to |-> IF k = "p4" THEN 5
                            ELSE clampDay(OrElse(settings[k].to, DefaultTo(k))),
                     todoistPriority |->
                         OrElse(settings[k].todoistPriority, DefaultPriority(k))]]
        c1 == clampDay(base["p1"].to)
        c2a == clampDay(base["p2"].to)
        c3a == clampDay(base["p3"].to)
        c2 == IF c2a < c1 THEN clampDay(c1 + 1) ELSE c2a
        c3 == IF c3a < c2 THEN clampDay(c2 + 1) ELSE c3a
    IN [base EXCEPT !["p1"].to = c1, !["p2"].to = c2, !["p3"].to = c3, !["p4"].to = 5]

\* the bucket by the distance in days, whichever side of today the date lies
computeConceptualBucketByDistance(diffDays, settings) ==
    LET distance == IF diffDays < 0 THEN 0 - diffDays ELSE diffDays
        day == clampDay(IF distance > 5 THEN 5 ELSE distance)
    IN IF day <= settings["p1"].to THEN "p1"
       ELSE IF day <= settings["p2"].to THEN "p2"
       ELSE IF day <= settings["p3"].to THEN "p3"
       ELSE "p4"

\* the bucket by the thresholds when the days are not capped at 5
computeConceptualBucketUncapped(diffDays, settings) ==
    IF diffDays <= 0 THEN "p1"
    ELSE IF diffDays <= settings["p1"].to THEN "p1"
    ELSE IF diffDays <= settings["p2"].to THEN "p2"
    ELSE IF diffDays <= settings["p3"].to THEN "p3"
    ELSE "p4"

\* the bucket when a date that is past due is classified as the farthest one
computeConceptualBucketOverdueLast(diffDays, settings) ==
    IF diffDays < 0 THEN "p4"
    ELSE IF diffDays = 0 THEN "p1"
    ELSE IF diffDays <= settings["p1"].to THEN "p1"
    ELSE IF diffDays <= settings["p2"].to THEN "p2"
    ELSE IF diffDays <= settings["p3"].to THEN "p3"
    ELSE "p4"

computeConceptualBucket(diffDays, settings) ==
    IF diffDays <= 0 THEN "p1"
    ELSE LET day == clampDay(IF diffDays > 5 THEN 5 ELSE diffDays)
         IN IF day <= settings["p1"].to THEN "p1"
            ELSE IF day <= settings["p2"].to THEN "p2"
            ELSE IF day <= settings["p3"].to THEN "p3"
            ELSE "p4"

\* the level of the bucket itself, enabled or not
bucketToTodoistPriorityOfBucket(bucket, settings) == settings[bucket].todoistPriority

\* the search that looks at the less urgent buckets first
bucketToTodoistPriorityDownFirst(bucket, settings) ==
    LET idx == IndexOf(bucket)
        down == {i \in idx..4 : settings[order[i]].enabled}
        up == {i \in 1..(idx - 1) : settings[order[i]].enabled}
        Max(S) == CHOOSE x \in S : \A y \in S : y <= x
        Min(S) == CHOOSE x \in S : \A y \in S : x <= y
    IN IF down # {} THEN settings[order[Min(down)]].todoistPriority
       ELSE IF up # {} THEN settings[order[Max(up)]].todoistPriority
       ELSE 2

bucketToTodoistPriority(bucket, settings) ==
    LET idx == IndexOf(bucket)
        up == {i \in 1..idx : settings[order[i]].enabled}
        down == {i \in (idx + 1)..4 : settings[order[i]].enabled}
        Max(S) == CHOOSE x \in S : \A y \in S : y <= x
        Min(S) == CHOOSE x \in S : \A y \in S : x <= y
    IN IF up # {} THEN settings[order[Max(up)]].todoistPriority
       ELSE IF down # {} THEN settings[order[Min(down)]].todoistPriority
       ELSE 2

\* lines 316-322 of syncAssignmentsToTodoist: the days from today's local
\* midnight to the local midnight of a stored due date
diffDaysOf(dueDateValue, today, tz) ==
    RoundDays(LocalMidnight(dueDateValue, tz) - LocalMidnight(today, tz))

\* an undated assignment falls into the last enabled bucket
conceptualBucketOfEnabled(dueDateValue, today, tz, settings) ==
    IF dueDateValue = Null
    THEN (IF settings["p4"].enabled THEN "p4" ELSE "p3")
    ELSE computeConceptualBucket(diffDaysOf(dueDateValue, today, tz), settings)

\* lines 313-324 of syncAssignmentsToTodoist: the bucket of a stored due date
conceptualBucket(dueDateValue, today, tz, settings) ==
    IF dueDateValue = Null THEN "p4"
    ELSE computeConceptualBucket(diffDaysOf(dueDateValue, today, tz), settings)

(***************************************************************************)
(* The universe of the model. A Course row stands for its unique key       *)
(* (userId, canvasCourseId), an Assignment row for (courseId,              *)
(* canvasAssignmentId): the row ids are the keys themselves.               *)
(***************************************************************************)
MaxTasks == 3
MaxSyncRuns == 2
MaxFaults == 1
MaxReliableSyncRuns == 3

\* u1 has saved its Canvas and Todoist tokens, u2 its Todoist token only, u3
\* none
Users == {"u1", "u2", "u3"}
TodoistUsers == {"u1", "u2"}
CanvasUsers == {"u1"}
CanvasCourseIds == {1, 2}
\* only a user with a Canvas account comes to have courses; in the fetch
\* specification u2 has saved its Canvas token as well
FetchCanvasUsers == {"u1", "u2"}
CourseIds == FetchCanvasUsers \X CanvasCourseIds
\* the assignments Canvas may list for a course
SourceAssignmentIds(cc) == {1}
AssignmentIds == UNION {{<<c, ca>> : ca \in SourceAssignmentIds(c[2])} : c \in CourseIds}
Projects == {"P1", "P2"}
TaskIds == 1..MaxTasks
\* assignment names as Canvas gives them, and task titles typed in Todoist
SourceNames == {"A", "B"}
Titles == {"A", " A", "B"}
\* String.prototype.trim on the strings of the model
Trim(content) == IF content = " A" THEN "A" ELSE content

\* the instant the model runs at: 09:00 UTC of day 100
Today == 100
Now0 == HoursPerDay * Today + 9
TzOffsets == {-8}

NoCourse == [exists |-> FALSE, userId |-> NoUser, todoistProjectId |-> NoProject]
NoAssignment == [exists |-> FALSE, name |-> "", dueDate |-> Null,
                 todoistTaskId |-> Null, lastSyncedAt |-> Null]
\* a task id is free until Todoist gives it out, live while the task exists and
\* gone once the task is deleted or completed. madeFor is a history field:
\* the assignment whose create call made the task, if one did.
NoAssignmentId == <<>>
FreeTask == [state |-> "free", content |-> "", project_id |-> NoProject,
             priority |-> 0, due |-> Null, madeFor |-> NoAssignmentId]
GoneTask == [FreeTask EXCEPT !.state = "gone"]

LiveTasks == {t \in TaskIds : tasks[t].state = "live"}
FreeTaskIds == {t \in TaskIds : tasks[t].state = "free"}
NextTaskId == CHOOSE t \in FreeTaskIds : \A u \in FreeTaskIds : t <= u

(***************************************************************************)
(* A sync cycle (one call of syncAssignmentsToTodoist) and its locals.     *)
(* outcome, listed, indexed, before, apiFailed, storeFailed, handled and   *)
(* prevOk are history variables: what the cycle did per assignment, the    *)
(* projects it asked Todoist for and those it got, the tasks that were     *)
(* there when the cycle began, whether a Todoist call or a                 *)
(* store access of it failed, whether the error handler wrote its row, and *)
(* whether the cycle before it was a fully successful one over the same    *)
(* input.                                                                  *)
(***************************************************************************)
Slots == {1, 2}

NoIndex == [k \in Projects \X Titles |-> Null]

IdleRun ==
    [pc |-> "idle", userId |-> NoUser, courseIds |-> {}, settings |-> NoSettings,
     syncRunId |-> Null, courses |-> {}, courseProject |-> [c \in CourseIds |-> NoProject],
     assignments |-> [a \in AssignmentIds |-> NoAssignment],
     projectIds |-> {}, existingTasksByKey |-> NoIndex, todo |-> {},
     created |-> 0, skipped |-> 0, error |-> "",
     outcome |-> [a \in AssignmentIds |-> "none"], listed |-> {}, indexed |-> {},
     before |-> {},
     apiFailed |-> FALSE, storeFailed |-> FALSE, handled |-> FALSE, prevOk |-> FALSE]

\* the answer to an assignments request that lists nothing
NoListing == [ca \in {} |-> Null]

\* A fetch cycle (one call of fetchAndStoreUpcomingAssignments) and its
\* locals. coursesTodo is what is left of the array `courses`. error, active,
\* pending, listed, listFailed, seen, upserted, purged and storeFailed
\* are history variables: why the cycle threw, the answers to the two course
\* requests, the courses Canvas listed, those whose assignments request failed, the items the assignment loop went
\* through per course, the rows it upserted, the rows it deleted at its start,
\* and whether an access to the store threw.
IdleFetch ==
    [pc |-> "idle", userId |-> NoUser, maxDaysAhead |-> Null, includeNoDueDate |-> TRUE,
     todayMidnight |-> Null, coursesTodo |-> <<>>,
     coursesProcessed |-> 0, assignmentsUpserted |-> 0,
     error |-> "", active |-> {}, pending |-> {}, listed |-> {}, listFailed |-> {},
     seen |-> [cc \in CanvasCourseIds |-> NoListing], upserted |-> {},
     purged |-> {}, storeFailed |-> FALSE]

\* no sync cycle has ended yet
NoPrev == [ok |-> FALSE, userId |-> NoUser, courseIds |-> {}]

\* The scheduler: the globals autoSyncUserId, autoSyncIntervalMinutes and
\* autoSyncTimer, the interval timers that are set in the Node runtime, and
\* the execution of runAutoSync in flight. fetchUser, queryUser and syncUser
\* are history fields: the user id each of the three calls of the last
\* execution was given, NoUser for null, NotCalled for a call it did not make.
NotCalled == "not called"
IdleExec == [pc |-> "idle", mappedCourses |-> {},
             fetchUser |-> NotCalled, queryUser |-> NotCalled, syncUser |-> NotCalled]
IdleAuto == [autoSyncUserId |-> NoUser, autoSyncIntervalMinutes |-> 0,
             autoSyncTimer |-> Null, timers |-> {}, exec |-> IdleExec]

IdleCalc == [pc |-> "idle", input |-> NoSettings, settings |-> NoSettings,
             dueDate |-> Null, diffDays |-> 0, bucket |-> "", priority |-> 0,
             dueAt |-> Null, byHour |-> Null, rendered |-> Null]

\* the store and Todoist when the users have saved their tokens and nothing
\* has been fetched yet
InitStore ==
    /\ todoistAccount = TodoistUsers
    /\ canvasAccount = CanvasUsers
    /\ courses = [c \in CourseIds |-> NoCourse]
    /\ assignments = [a \in AssignmentIds |-> NoAssignment]
    /\ syncRuns = <<>>
    /\ tasks = [t \in TaskIds |-> FreeTask]

InitServer ==
    /\ InitStore
    /\ now = Now0
    /\ tzOffset \in TzOffsets
    /\ run = [s \in Slots |-> IdleRun]
    /\ fetch = IdleFetch
    /\ prev = NoPrev
    /\ faults = 0
    /\ auto = IdleAuto

Init == InitServer /\ calc = IdleCalc

storeVars == <<todoistAccount, canvasAccount, courses, assignments, syncRuns>>
envVars == <<now, tzOffset>>

RunBusy(s) == run[s].pc \notin {"idle", "returned", "thrown"}

\* something changed since the last sync cycle ended
Touched == NoPrev

(***************************************************************************)
(* Requests that write one row, and what the Todoist user does by hand.    *)
(***************************************************************************)
\* POST /api/courses/map-project: the row is found by its id alone
MapProject(userId, courseId, todoistProjectId) ==
    /\ courses[courseId].exists
    /\ courses' = [courses EXCEPT ![courseId].todoistProjectId = todoistProjectId]
    /\ prev' = Touched
    /\ UNCHANGED <<todoistAccount, canvasAccount, assignments, syncRuns, tasks, envVars,
                   run, fetch, calc, auto>>

RemoteAddTask(projectId, content) ==
    /\ FreeTaskIds # {}
    /\ tasks' = [tasks EXCEPT ![NextTaskId] =
                    [state |-> "live", content |-> content, project_id |-> projectId,
                     priority |-> 1, due |-> Null, madeFor |-> NoAssignmentId]]
    /\ prev' = Touched
    /\ UNCHANGED <<storeVars, envVars, run, fetch, calc, auto>>

RemoteDeleteTask(taskId) ==
    /\ tasks[taskId].state = "live"
    /\ tasks' = [tasks EXCEPT ![taskId] = GoneTask]
    /\ prev' = Touched
    /\ UNCHANGED <<storeVars, envVars, run, fetch, calc, auto>>

(***************************************************************************)
(* syncAssignmentsToTodoist.                                               *)
(***************************************************************************)
\* prisma.syncRun.create, lines 206-212
NewSyncRun(userId, courseIds) ==
    [userId |-> userId, status |-> "RUNNING", finishedAt |-> Null,
     message |-> [text |-> "Starting sync", a |-> Cardinality(courseIds), b |-> 0]]

\* a finalization that writes the summary but not the status
markSuccessKeepsStatus(row, created, skipped) ==
    [row EXCEPT !.finishedAt = now,
                !.message = [text |-> "Created, skipped", a |-> created, b |-> skipped]]

\* markSuccess, lines 214-223
markSuccess(row, created, skipped) ==
    [row EXCEPT !.finishedAt = now, !.status = "SUCCESS",
                !.message = [text |-> "Created, skipped", a |-> created, b |-> skipped]]

\* an error handler that writes the message but not the status
markErrorKeepsStatus(row, err) ==
    [row EXCEPT !.finishedAt = now, !.message = [text |-> err, a |-> 0, b |-> 0]]

\* an error handler that does not write the end timestamp
markErrorWithoutFinishedAt(row, err) ==
    [row EXCEPT !.status = "ERROR", !.message = [text |-> err, a |-> 0, b |-> 0]]

\* markError, lines 225-234
markError(row, err) ==
    [row EXCEPT !.finishedAt = now, !.status = "ERROR",
                !.message = [text |-> err, a |-> 0, b |-> 0]]

\* a where clause that does not look at the owner
CoursesInScopeOfAnyUser(userId, courseIds) ==
    {c \in courseIds : courses[c].exists /\ courses[c].todoistProjectId # NoProject}

\* the where clause of prisma.course.findMany, lines 237-243
CoursesInScope(userId, courseIds) ==
    {c \in courseIds : /\ courses[c].exists
                       /\ courses[c].userId = userId
                       /\ courses[c].todoistProjectId # NoProject}

\* a key that keeps the title as it is written
makeTaskKeyUntrimmed(projectId, content) == <<projectId, content>>

\* makeTaskKey, lines 273-274
makeTaskKey(projectId, content) == <<projectId, Trim(content)>>

\* a check that takes every user for one that has saved a Todoist token
hasTodoistAccountAlways(userId) == TRUE

\* lines 192-199: the user row is there and has a TodoistAccount
hasTodoistAccount(userId) == userId \in todoistAccount

\* lines 592-599: the user row is there and has a CanvasAccount
hasCanvasAccount(userId) == userId \in canvasAccount

\* what a cycle leaves behind when it ends
Ended(r, ok) ==
    IF ok /\ ~r.apiFailed /\ ~r.storeFailed
    THEN [ok |-> TRUE, userId |-> r.userId, courseIds |-> r.courseIds]
    ELSE NoPrev

\* where the cycle goes once the projects are listed and the loop runs
AfterStep(projectIds, todo) ==
    IF projectIds # {} THEN "index" ELSE IF todo # {} THEN "loop" ELSE "markSuccess"

StartSync(s, userId, courseIds, prioritySettings, fail) ==
    /\ run[s].pc = "idle"
    /\ LET r0 == [IdleRun EXCEPT !.userId = userId, !.courseIds = courseIds,
                      !.before = LiveTasks,
                      !.prevOk = prev.ok /\ prev.userId = userId
                                 /\ prev.courseIds = courseIds]
       IN IF courseIds = {}
          THEN /\ fail = "none"
               /\ run' = [run EXCEPT ![s] = [r0 EXCEPT !.pc = "returned"]]
               /\ prev' = Ended(r0, TRUE)
               /\ UNCHANGED syncRuns
          ELSE IF fail = "findUnique"
          THEN /\ run' = [run EXCEPT ![s] = [r0 EXCEPT !.pc = "thrown", !.error = "store",
                                                      !.storeFailed = TRUE]]
               /\ prev' = Ended(r0, FALSE)
               /\ UNCHANGED syncRuns
          ELSE IF ~hasTodoistAccount(userId)
          THEN /\ fail = "none"
               /\ run' = [run EXCEPT ![s] = [r0 EXCEPT !.pc = "thrown",
                                 !.error = "Todoist configuration not found"]]
               /\ prev' = Ended(r0, FALSE)
               /\ UNCHANGED syncRuns
          ELSE IF fail = "create"
          THEN /\ run' = [run EXCEPT ![s] = [r0 EXCEPT !.pc = "thrown", !.error = "store",
                                                      !.storeFailed = TRUE]]
               /\ prev' = Ended(r0, FALSE)
               /\ UNCHANGED syncRuns
          ELSE /\ syncRuns' = Append(syncRuns, NewSyncRun(userId, courseIds))
               /\ run' = [run EXCEPT ![s] =
                              [r0 EXCEPT !.pc = "findCourses",
                                         !.settings = normalizePrioritySettings(prioritySettings),
                                         !.syncRunId = Len(syncRuns) + 1]]
               /\ UNCHANGED prev
    /\ UNCHANGED <<todoistAccount, canvasAccount, courses, assignments, tasks, envVars,
                   fetch, calc, auto>>

FindCourses(s, storeOk) ==
    LET r == run[s]
        found == CoursesInScope(r.userId, r.courseIds)
    IN /\ r.pc = "findCourses"
       /\ run' = [run EXCEPT ![s] =
            IF ~storeOk
            THEN [r EXCEPT !.pc = "markError", !.error = "store", !.storeFailed = TRUE]
            ELSE IF found = {} THEN [r EXCEPT !.pc = "markSuccess"]
            ELSE [r EXCEPT !.pc = "findAssignments", !.courses = found,
                           !.courseProject = [c \in CourseIds |->
                               IF c \in found THEN courses[c].todoistProjectId
                               ELSE NoProject]]]
       /\ UNCHANGED <<storeVars, tasks, envVars, fetch, prev, calc, auto>>

FindAssignments(s, storeOk) ==
    LET r == run[s]
        rows == [a \in AssignmentIds |->
                    IF a[1] \in r.courses THEN assignments[a] ELSE NoAssignment]
        projectIds == {r.courseProject[c] : c \in r.courses}
        todo == {a \in AssignmentIds : rows[a].exists}
    IN /\ r.pc = "findAssignments"
       /\ run' = [run EXCEPT ![s] =
            IF ~storeOk
            THEN [r EXCEPT !.pc = "markError", !.error = "store", !.storeFailed = TRUE]
            ELSE [r EXCEPT !.pc = "index", !.assignments = rows,
                           !.projectIds = projectIds, !.todo = todo]]
       /\ UNCHANGED <<storeVars, tasks, envVars, fetch, prev, calc, auto>>

\* the orders in which Todoist may list the tasks
TaskOrders == {q \in [TaskIds -> TaskIds] : \A i, j \in TaskIds : q[i] = q[j] => i = j}

\* the task of S that comes first in the listing q
FirstOf(q, S) == CHOOSE t \in S : \A u \in S : q[t] <= q[u]

\* the tasks of a listing that fall under an index key
Keyed(projectId, key) ==
    {t \in LiveTasks : /\ tasks[t].project_id = projectId
                       /\ makeTaskKey(projectId, tasks[t].content) = key}

\* a listing whose failure is not caught
tasksNotListedAborts(r, projectId) ==
    [r EXCEPT !.pc = "markError", !.error = "request failed",
              !.listed = r.listed \cup {projectId}, !.apiFailed = TRUE]

\* the catch block of lines 293-298: the loop goes on with the next project
tasksNotListed(r, projectId) ==
    [r EXCEPT !.projectIds = r.projectIds \ {projectId},
              !.pc = AfterStep(r.projectIds \ {projectId}, r.todo),
              !.listed = r.listed \cup {projectId},
              !.apiFailed = TRUE]

\* lines 276-299: one project's GET /tasks; the first task of a key wins, and
\* a key that is already in the index keeps its task
ListTasks(s, projectId, ok, q) ==
    LET r == run[s]
        left == r.projectIds \ {projectId}
        index == [k \in Projects \X Titles |->
                     IF r.existingTasksByKey[k] = Null /\ Keyed(projectId, k) # {}
                     THEN FirstOf(q, Keyed(projectId, k))
                     ELSE r.existingTasksByKey[k]]
    IN /\ r.pc = "index"
       /\ projectId \in r.projectIds
       /\ run' = [run EXCEPT ![s] =
            IF ok
            THEN [r EXCEPT !.projectIds = left, !.pc = AfterStep(left, r.todo),
                           !.listed = r.listed \cup {projectId},
                           !.indexed = r.indexed \cup {projectId},
                           !.existingTasksByKey = index]
            ELSE tasksNotListed(r, projectId)]
       /\ UNCHANGED <<storeVars, tasks, envVars, fetch, prev, calc, auto>>

\* the time of a store write, told apart by the cycle that makes it
Stamp(r) == now

\* the update body, lines 339-346 and 416-423: due_date is always sent, null
\* clears the due date
updateBody(todoistPriority, dueDate) ==
    [priority |-> todoistPriority, has_due_date |-> TRUE, due_date |-> dueDate]

\* the create body, lines 375-383: due_date is sent only when there is one
createBody(name, projectId, todoistPriority, dueDate) ==
    [content |-> name, project_id |-> projectId, priority |-> todoistPriority,
     has_due_date |-> dueDate # Null, due_date |-> dueDate]

\* Todoist: POST /tasks/{id} and POST /tasks
Updated(task, body) ==
    [task EXCEPT !.priority = body.priority,
                 !.due = IF body.has_due_date THEN body.due_date ELSE task.due]
Created(body) ==
    [state |-> "live", content |-> body.content, project_id |-> body.project_id,
     priority |-> body.priority,
     due |-> IF body.has_due_date THEN body.due_date ELSE Null,
     madeFor |-> NoAssignmentId]

\* writes that set lastSyncedAt and leave the link as it is
linkRowWithoutId(row, taskId, stamp) == [row EXCEPT !.lastSyncedAt = stamp]
unlinkRowKeepsLink(row, stamp) == [row EXCEPT !.lastSyncedAt = stamp]

\* the data of the three prisma.assignment.update calls
linkRow(row, taskId, stamp) ==
    [row EXCEPT !.todoistTaskId = taskId, !.lastSyncedAt = stamp]
touchRow(row, stamp) == [row EXCEPT !.lastSyncedAt = stamp]
unlinkRow(row, stamp) == [row EXCEPT !.todoistTaskId = Null, !.lastSyncedAt = stamp]

\* lines 311-327: what the loop computes for an assignment before it branches
todoistPriorityOf(r, a) ==
    bucketToTodoistPriority(
        conceptualBucket(r.assignments[a].dueDate, now, tzOffset, r.settings), r.settings)
dueDateOf(r, a) == toTodoistDate(r.assignments[a].dueDate, tzOffset)
taskKeyOf(r, a) == makeTaskKey(r.courseProject[a[1]], r.assignments[a].name)

\* one more assignment is done
Step(r, a, what) ==
    [r EXCEPT !.todo = r.todo \ {a}, !.pc = AfterStep({}, r.todo \ {a}),
              !.outcome[a] = what]

\* a failure that is not caught: it ends the loop
skipAssignmentRethrows(r, a, what) ==
    [r EXCEPT !.pc = "markError", !.error = "request failed", !.outcome[a] = what]

\* catch blocks that do not count the assignment
skipAssignmentUncounted(r, a, what) == Step(r, a, what)

\* the catch blocks of lines 406-408 and 442-452: the assignment is skipped
skipAssignment(r, a, what) == [Step(r, a, what) EXCEPT !.skipped = r.skipped + 1]

\* lines 337-373: an unlinked assignment whose title is in the cache
RelinkAssignment(s, a, apiOk, storeOk) ==
    LET r == run[s]
        existingTaskId == r.existingTasksByKey[taskKeyOf(r, a)]
        body == updateBody(todoistPriorityOf(r, a), dueDateOf(r, a))
    IN /\ r.pc = "loop"
       /\ a \in r.todo
       /\ r.assignments[a].todoistTaskId = Null
       /\ existingTaskId # Null
       /\ apiOk => tasks[existingTaskId].state = "live"
       /\ storeOk => apiOk /\ assignments[a].exists
       /\ tasks' = IF apiOk THEN [tasks EXCEPT ![existingTaskId] = Updated(@, body)]
                   ELSE tasks
       /\ assignments' = IF storeOk
                         THEN [assignments EXCEPT ![a] = linkRow(@, existingTaskId, Stamp(r))]
                         ELSE assignments
       /\ run' = [run EXCEPT ![s] =
            IF storeOk
            THEN [Step(r, a, "relinked") EXCEPT !.skipped = r.skipped + 1]
            ELSE IF apiOk
            THEN [Step(r, a, "relinkNotStored") EXCEPT !.storeFailed = TRUE]
            ELSE [Step(r, a, "relinkFailed") EXCEPT !.apiFailed = TRUE]]
       /\ UNCHANGED <<todoistAccount, canvasAccount, courses, syncRuns, envVars,
                      fetch, prev, calc, auto>>

\* lines 375-411: an unlinked assignment whose title is not in the cache
CreateTask(s, a, apiOk, storeOk) ==
    LET r == run[s]
        taskKey == taskKeyOf(r, a)
        body == createBody(r.assignments[a].name, r.courseProject[a[1]],
                           todoistPriorityOf(r, a), dueDateOf(r, a))
    IN /\ r.pc = "loop"
       /\ a \in r.todo
       /\ r.assignments[a].todoistTaskId = Null
       /\ r.existingTasksByKey[taskKey] = Null
       /\ apiOk => FreeTaskIds # {}
       /\ storeOk => apiOk /\ assignments[a].exists
       /\ tasks' = IF apiOk
                   THEN [tasks EXCEPT ![NextTaskId] = [Created(body) EXCEPT !.madeFor = a]]
                   ELSE tasks
       /\ assignments' = IF storeOk
                         THEN [assignments EXCEPT ![a] = linkRow(@, NextTaskId, Stamp(r))]
                         ELSE assignments
       /\ run' = [run EXCEPT ![s] =
            IF storeOk
            THEN [Step(r, a, "created") EXCEPT
                      !.existingTasksByKey[taskKey] = NextTaskId,
                      !.created = r.created + 1]
            ELSE IF apiOk
            THEN [skipAssignment(r, a, "createNotStored") EXCEPT !.storeFailed = TRUE]
            ELSE [skipAssignment(r, a, "createFailed") EXCEPT !.apiFailed = TRUE]]
       /\ UNCHANGED <<todoistAccount, canvasAccount, courses, syncRuns, envVars,
                      fetch, prev, calc, auto>>

\* lines 413-453: an assignment that has a task. storeOk is the write of
\* lastSyncedAt in the try block, catchOk the write in the catch block.
UpdateLinkedTask(s, a, apiOk, storeOk, catchOk) ==
    LET r == run[s]
        taskId == r.assignments[a].todoistTaskId
        body == updateBody(todoistPriorityOf(r, a), dueDateOf(r, a))
    IN /\ r.pc = "loop"
       /\ a \in r.todo
       /\ taskId # Null
       /\ apiOk => tasks[taskId].state = "live"
       /\ storeOk => apiOk /\ assignments[a].exists /\ catchOk
       /\ catchOk => assignments[a].exists
       /\ tasks' = IF apiOk THEN [tasks EXCEPT ![taskId] = Updated(@, body)] ELSE tasks
       /\ assignments' = IF storeOk
                         THEN [assignments EXCEPT ![a] = touchRow(@, Stamp(r))]
                         ELSE IF catchOk
                         THEN [assignments EXCEPT ![a] = unlinkRow(@, Stamp(r))]
                         ELSE assignments
       /\ run' = [run EXCEPT ![s] =
            IF storeOk THEN Step(r, a, "updated")
            ELSE IF catchOk
            THEN [skipAssignment(r, a, IF apiOk THEN "updateNotStored" ELSE "updateFailed")
                  EXCEPT
                      !.apiFailed = r.apiFailed \/ ~apiOk,
                      !.storeFailed = r.storeFailed \/ apiOk]
            ELSE [r EXCEPT !.pc = "markError", !.error = "store", !.outcome[a] = "threw",
                           !.apiFailed = r.apiFailed \/ ~apiOk, !.storeFailed = TRUE]]
       /\ UNCHANGED <<todoistAccount, canvasAccount, courses, syncRuns, envVars,
                      fetch, prev, calc, auto>>

\* lines 245-248 and 456-457
MarkSuccess(s, storeOk) ==
    LET r == run[s]
    IN /\ r.pc = "markSuccess"
       /\ IF storeOk
          THEN /\ syncRuns' = [syncRuns EXCEPT ![r.syncRunId] =
                                   markSuccess(@, r.created, r.skipped)]
               /\ run' = [run EXCEPT ![s].pc = "returned"]
               /\ prev' = Ended(r, TRUE)
          ELSE /\ run' = [run EXCEPT ![s] = [r EXCEPT !.pc = "markError",
                                 !.error = "store", !.storeFailed = TRUE]]
               /\ UNCHANGED <<syncRuns, prev>>
       /\ UNCHANGED <<todoistAccount, canvasAccount, courses, assignments, tasks, envVars,
                      fetch, calc, auto>>

\* lines 458-461
MarkError(s, storeOk) ==
    LET r == run[s]
    IN /\ r.pc = "markError"
       /\ syncRuns' = IF storeOk
                      THEN [syncRuns EXCEPT ![r.syncRunId] = markError(@, r.error)]
                      ELSE syncRuns
       /\ run' = [run EXCEPT ![s] = [r EXCEPT !.pc = "thrown", !.handled = storeOk]]
       /\ prev' = Ended(r, FALSE)
       /\ UNCHANGED <<todoistAccount, canvasAccount, courses, assignments, tasks, envVars,
                      fetch, calc, auto>>

\* POST /api/todoist/sync-assignments: the handler answers with the counts, or
\* with status 500; runAutoSync logs them. The locals of the cycle are gone.
SyncResponse(s) ==
    /\ run[s].pc \in {"returned", "thrown"}
    /\ run' = [run EXCEPT ![s] = IdleRun]
    /\ UNCHANGED <<storeVars, tasks, envVars, fetch, prev, calc, auto>>

(***************************************************************************)
(* fetchAndStoreUpcomingAssignments.                                       *)
(***************************************************************************)
\* a due_at that new Date() cannot parse
Unparseable == -1
\* America/Los_Angeles; the instants of the model lie in winter time
PacificOffset == -8

\* lines 525-550
normalizeDueDate(dueAt) ==
    IF dueAt = Null \/ dueAt = Unparseable THEN Null
    ELSE MiddayUTC(LocalDay(dueAt, PacificOffset))

\* normalizeDueDate of services/canvasService.ts, lines 63-76: the instant
\* itself, a day earlier when its hour on the server's clock is before 4
normalizeDueDateByHour(dueAt, tz) ==
    IF dueAt = Null \/ dueAt = Unparseable THEN Null
    ELSE IF (dueAt + tz) % HoursPerDay < 4 THEN dueAt - HoursPerDay
    ELSE dueAt

\* line 657
maxDaysAheadOf(daysAhead) == IF daysAhead > 0 THEN daysAhead ELSE Null

\* a loop that has no check for past due dates
SkippedUnlessPast(dueDate, todayMidnight, maxDaysAhead, includeNoDueDate) ==
    \/ dueDate = Null /\ ~includeNoDueDate
    \/ /\ dueDate # Null
       /\ maxDaysAhead # Null
       /\ RoundDays(dueDate - todayMidnight) > maxDaysAhead

\* lines 697-714: whether the loop skips the assignment
Skipped(dueDate, todayMidnight, maxDaysAhead, includeNoDueDate) ==
    \/ dueDate = Null /\ ~includeNoDueDate
    \/ dueDate # Null /\ dueDate < todayMidnight
    \/ /\ dueDate # Null
       /\ maxDaysAhead # Null
       /\ RoundDays(dueDate - todayMidnight) > maxDaysAhead

\* a request that fails
Failed == {0}

\* a listing as Canvas sends it, in the order of the course ids
RECURSIVE Listed(_)
Listed(ids) ==
    IF ids = {} THEN <<>>
    ELSE LET first == CHOOSE cc \in ids : \A d \in ids : cc <= d
         IN <<first>> \o Listed(ids \ {first})

\* a merge that appends the whole pending listing
mergeCoursesAll(active, pending) ==
    IF pending = Failed THEN Listed(active)
    ELSE Listed(active) \o Listed(pending)

\* lines 626-647: the pending courses that the active listing does not have
\* are appended to it, unless their request fails
mergeCourses(active, pending) ==
    IF pending = Failed THEN Listed(active)
    ELSE Listed(active) \o Listed(pending \ active)

\* a purge that deletes the undated assignments of every user
purgeUndatedOfAll(rows, userId) ==
    [a \in AssignmentIds |->
        IF rows[a].exists /\ rows[a].dueDate = Null THEN NoAssignment ELSE rows[a]]

\* prisma.assignment.deleteMany, lines 601-612
purgeUndated(rows, userId) ==
    [a \in AssignmentIds |->
        IF /\ rows[a].exists
           /\ rows[a].dueDate = Null
           /\ courses[a[1]].userId = userId
        THEN NoAssignment ELSE rows[a]]

\* an assignments request that fails ends the cycle
listingFailedAborts(f, cc) ==
    [f EXCEPT !.pc = "thrown", !.error = "assignments", !.coursesTodo = <<>>,
              !.listFailed = @ \cup {cc}]

\* the catch block of lines 739-744: the course is done and the loop goes on
listingFailed(f, cc) ==
    [f EXCEPT !.coursesTodo = Tail(@), !.coursesProcessed = @ + 1,
              !.listFailed = @ \cup {cc}]

\* lines 590-657: the configuration check, the purge of undated assignments and
\* the two course listings. storeOk is the answer of the store to findUnique
\* and deleteMany; `active` and `pending` are the courses listed, or Failed when
\* the request fails.
FetchStart(userId, daysAhead, includeNoDueDate, storeOk, active, pending) ==
    LET f0 == [IdleFetch EXCEPT !.userId = userId,
                                !.includeNoDueDate = includeNoDueDate,
                                !.maxDaysAhead = maxDaysAheadOf(daysAhead)]
        gone == IF includeNoDueDate THEN {}
                ELSE {a \in AssignmentIds :
                         /\ assignments[a].exists
                         /\ ~purgeUndated(assignments, userId)[a].exists}
    IN /\ fetch.pc = "idle"
       /\ IF ~storeOk
          THEN /\ fetch' = [f0 EXCEPT !.pc = "thrown", !.error = "store",
                                      !.storeFailed = TRUE]
               /\ UNCHANGED <<assignments, prev>>
          ELSE IF ~hasCanvasAccount(userId)
          THEN /\ fetch' = [f0 EXCEPT !.pc = "thrown",
                                      !.error = "Canvas configuration not found"]
               /\ UNCHANGED <<assignments, prev>>
          ELSE /\ assignments' =
                      IF includeNoDueDate THEN assignments
                      ELSE purgeUndated(assignments, userId)
               /\ prev' = Touched
               /\ fetch' =
                      IF active = Failed
                      THEN [f0 EXCEPT !.pc = "thrown", !.error = "courses",
                                      !.active = Failed, !.purged = gone]
                      ELSE [f0 EXCEPT
                               !.pc = "courses", !.purged = gone,
                               !.todayMidnight = LocalMidnight(now, tzOffset),
                               !.active = active, !.pending = pending,
                               !.coursesTodo = mergeCourses(active, pending),
                               !.listed = IF pending = Failed THEN active
                                          ELSE active \cup pending]
       /\ UNCHANGED <<todoistAccount, canvasAccount, courses, syncRuns, tasks, envVars,
                      run, calc, auto>>

\* whether an item of the listing is stored, lines 693-714
Stored(item, f) ==
    /\ item.name # ""
    /\ ~Skipped(normalizeDueDate(item.due_at), f.todayMidnight, f.maxDaysAhead,
                f.includeNoDueDate)

\* an upsert whose update does not carry the due date
upsertAssignmentDropsDueDate(row, item) ==
    IF row.exists
    THEN [row EXCEPT !.name = item.name, !.dueDate = Null]
    ELSE [exists |-> TRUE, name |-> item.name, dueDate |-> normalizeDueDate(item.due_at),
          todoistTaskId |-> Null, lastSyncedAt |-> Null]

\* the upsert of lines 716-735: an existing row keeps its link
upsertAssignment(row, item) ==
    IF row.exists
    THEN [row EXCEPT !.name = item.name, !.dueDate = normalizeDueDate(item.due_at)]
    ELSE [exists |-> TRUE, name |-> item.name, dueDate |-> normalizeDueDate(item.due_at),
          todoistTaskId |-> Null, lastSyncedAt |-> Null]

\* an upsert that writes the whole row again
upsertCourseResetsLink(row, userId) ==
    [exists |-> TRUE, userId |-> userId, todoistProjectId |-> NoProject]

\* the upsert of lines 662-677: an existing row keeps its project
upsertCourse(row, userId) ==
    IF row.exists THEN row
    ELSE [exists |-> TRUE, userId |-> userId, todoistProjectId |-> NoProject]

\* lines 659-745: the next course: its upsert, the listing of its assignments
\* and their upserts. `listing` is what Canvas answers, the items by their
\* Canvas id, unless the request fails (~listOk); `reached` are the items the
\* loop gets to: all of them unless an upsert throws, which ends the loop for
\* this course.
FetchCourse(cc, named, storeOk, listOk, listing, reached) ==
    LET c == <<fetch.userId, cc>>
        stored == {ca \in reached : Stored(listing[ca], fetch)}
    IN /\ fetch.pc = "courses"
       /\ fetch.coursesTodo # <<>>
       /\ cc = Head(fetch.coursesTodo)
       /\ reached \subseteq DOMAIN listing
       /\ ~listOk => DOMAIN listing = {}
       /\ IF ~named
          THEN /\ fetch' = [fetch EXCEPT !.coursesTodo = Tail(@)]
               /\ UNCHANGED <<courses, assignments>>
          ELSE IF ~storeOk
          THEN /\ fetch' = [fetch EXCEPT !.pc = "thrown", !.coursesTodo = <<>>,
                                         !.error = "store", !.storeFailed = TRUE]
               /\ UNCHANGED <<courses, assignments>>
          ELSE /\ courses' = [courses EXCEPT ![c] = upsertCourse(@, fetch.userId)]
               /\ assignments' = [a \in AssignmentIds |->
                      IF a[1] = c /\ a[2] \in stored
                      THEN upsertAssignment(assignments[a], listing[a[2]])
                      ELSE assignments[a]]
               /\ fetch' =
                      IF ~listOk THEN listingFailed(fetch, cc)
                      ELSE [fetch EXCEPT
                               !.coursesTodo = Tail(@),
                               !.coursesProcessed = @ + 1,
                               !.assignmentsUpserted = @ + Cardinality(stored),
                               !.seen[cc] = [ca \in reached |-> listing[ca]],
                               !.upserted = @ \cup {<<c, ca>> : ca \in stored},
                               !.storeFailed = @ \/ reached # DOMAIN listing]
       /\ prev' = Touched
       /\ UNCHANGED <<todoistAccount, canvasAccount, syncRuns, tasks, envVars, run, calc, auto>>

\* line 747
FetchReturn ==
    /\ fetch.pc = "courses"
    /\ fetch.coursesTodo = <<>>
    /\ fetch' = [fetch EXCEPT !.pc = "returned"]
    /\ UNCHANGED <<storeVars, tasks, envVars, run, prev, calc, auto>>

\* POST /api/canvas/fetch-assignments: the handler answers
FetchResponse ==
    /\ fetch.pc \in {"returned", "thrown"}
    /\ fetch' = IdleFetch
    /\ UNCHANGED <<storeVars, tasks, envVars, run, prev, calc, auto>>

(***************************************************************************)
(* The specification. The cycles of this specification do not overlap: a   *)
(* request is made, and the Todoist user acts by hand, when no cycle is in *)
(* flight. Of the requests a cycle makes, at most MaxFaults fail although  *)
(* they could succeed.                                                     *)
(***************************************************************************)
SyncSettingsInputs ==
    {NoSettings,
     [NoSettings EXCEPT !["p1"].enabled = <<FALSE>>, !["p4"].enabled = <<TRUE>>,
                        !["p2"].to = <<1>>]}
\* what Canvas lists: two active courses of one assignment each, the first
\* named "A" and due at 23:00 Pacific of tomorrow, the second undated and named
\* "A" or "B"
ListedCourses == {1, 2}
SourceItems(cc) ==
    IF cc = 1 THEN {[name |-> "A", due_at |-> HoursPerDay * (Today + 2) + 7]}
    ELSE {[name |-> n, due_at |-> Null] : n \in SourceNames}
Listings(cc) == {[ca \in SourceAssignmentIds(cc) |-> item] : item \in SourceItems(cc)}
\* the project the courses are mapped to, and the title typed there by hand
MappedProjects == {"P1"}
ManualTitles == {" A"}

\* no cycle is in flight, and none has ended that was not answered
Quiet == fetch.pc = "idle" /\ \A s \in Slots : run[s].pc = "idle"
\* the sync requests: u1 over its courses, u2 and u3 over a course of u1
SyncRequests ==
    {<<"u1", cs>> : cs \in SUBSET ({"u1"} \X CanvasCourseIds)}
    \cup {<<u, {<<"u1", 1>>}>> : u \in {"u2", "u3"}}

\* the task the update call for assignment a goes to is no longer there
Gone(s, a) ==
    LET r == run[s]
        taskId == IF r.assignments[a].todoistTaskId # Null
                  THEN r.assignments[a].todoistTaskId
                  ELSE r.existingTasksByKey[taskKeyOf(r, a)]
    IN taskId # Null /\ tasks[taskId].state # "live"

\* a request fails although it could succeed: at most MaxFaults times
Fault(failed) ==
    /\ failed => faults < MaxFaults
    /\ faults' = IF failed THEN faults + 1 ELSE faults

\* the first course of the listing that is still to do
NextCourses == IF fetch.coursesTodo = <<>> THEN {} ELSE {Head(fetch.coursesTodo)}

\* what a request to the store or to a remote system may answer
Answers == BOOLEAN
Reliable == {TRUE}
StartFailures(answers) ==
    IF FALSE \in answers THEN {"none", "findUnique", "create"} ELSE {"none"}
CourseListings(answers, listed) ==
    IF FALSE \in answers THEN {listed, Failed} ELSE {listed}

\* the requests and the steps of the cycles, but for the error handler
Steps(answers, listAnswers, maxRuns, settingsInputs, projects) ==
    \/ /\ Quiet
       /\ \E u \in Users, c \in CourseIds, p \in projects \cup {NoProject} :
             MapProject(u, c, p)
       /\ Fault(FALSE)
    \/ /\ Quiet /\ FreeTaskIds = TaskIds
       /\ \E p \in projects, t \in ManualTitles : RemoteAddTask(p, t)
       /\ Fault(FALSE)
    \/ /\ Quiet
       /\ \E t \in TaskIds : RemoteDeleteTask(t)
       /\ Fault(FALSE)
    \/ /\ Quiet /\ Len(syncRuns) < maxRuns
       /\ \E rq \in SyncRequests, st \in settingsInputs,
             fail \in StartFailures(answers) :
             StartSync(1, rq[1], rq[2], st, fail) /\ Fault(fail # "none")
    \/ /\ run[1].pc = "findCourses"
       /\ \E ok \in answers : FindCourses(1, ok) /\ Fault(~ok)
    \/ /\ run[1].pc = "findAssignments"
       /\ \E ok \in answers : FindAssignments(1, ok) /\ Fault(~ok)
    \/ /\ run[1].pc = "index"
       /\ \E p \in run[1].projectIds, ok \in listAnswers, q \in TaskOrders :
             ListTasks(1, p, ok, q) /\ Fault(~ok)
    \/ /\ run[1].pc = "loop"
       /\ \E a \in run[1].todo :
             \E apiOk \in answers \cup {~Gone(1, a)}, storeOk \in answers \cup {~Gone(1, a)} :
             /\ RelinkAssignment(1, a, apiOk, storeOk)
             /\ Fault(~storeOk /\ ~Gone(1, a))
    \/ /\ run[1].pc = "loop"
       /\ \E a \in run[1].todo, apiOk \in answers \cup {FreeTaskIds # {}},
             storeOk \in answers \cup {FreeTaskIds # {}} :
             /\ CreateTask(1, a, apiOk, storeOk)
             /\ Fault(~storeOk /\ FreeTaskIds # {})
    \/ /\ run[1].pc = "loop"
       /\ \E a \in run[1].todo :
             \E apiOk \in answers \cup {~Gone(1, a)},
                storeOk \in answers \cup {~Gone(1, a)}, catchOk \in answers :
             /\ UpdateLinkedTask(1, a, apiOk, storeOk, catchOk)
             /\ Fault(~catchOk \/ (~storeOk /\ ~Gone(1, a)))
    \/ /\ run[1].pc = "markSuccess"
       /\ \E ok \in answers : MarkSuccess(1, ok) /\ Fault(~ok)
    \/ /\ Quiet
       /\ \E u \in Users, act \in CourseListings(answers, ListedCourses),
             pen \in CourseListings(answers, {}) :
             \E ok \in answers :
                 /\ FetchStart(u, Null, TRUE, ok, act, pen)
                 /\ Fault(~ok \/ (u \in canvasAccount /\ Failed \in {act, pen}))
    \/ /\ fetch.pc = "courses"
       /\ \E cc \in NextCourses, ok, listOk \in answers :
             \E l \in (IF listOk THEN Listings(cc) ELSE {NoListing}) :
                 \E reached \in SUBSET DOMAIN l :
                     /\ FetchCourse(cc, TRUE, ok, listOk, l, reached)
                     /\ Fault(~ok \/ ~listOk \/ reached # DOMAIN l)
    \/ FetchReturn /\ Fault(FALSE)
    \/ SyncResponse(1) /\ Fault(FALSE)
    \/ FetchResponse /\ Fault(FALSE)

\* the error handler; its own write may fail whenever it runs
ErrorHandler ==
    /\ run[1].pc = "markError"
    /\ \E ok \in Answers : MarkError(1, ok)
    /\ Fault(FALSE)

Next ==
    Steps(Answers, Answers, MaxSyncRuns, SyncSettingsInputs, MappedProjects) \/ ErrorHandler

Spec == Init /\ [][Next]_vars

\* the same requests when every request that can succeed does and the
\* priority settings are left at their defaults
NextReliable ==
    Steps(Reliable, Reliable, MaxReliableSyncRuns, {NoSettings}, MappedProjects)

SpecReliable == Init /\ [][NextReliable]_vars

\* the courses are mapped to either project, and the one request that may
\* fail is the listing of the tasks of a project
MaxProjectSyncRuns == 2
NextProjects == Steps(Reliable, Answers, MaxProjectSyncRuns, {NoSettings}, Projects)

SpecProjects == Init /\ [][NextProjects]_vars

(***************************************************************************)
(* Requests that overlap. The handler of POST /api/todoist/sync-assignments *)
(* and the timer of configureAutoSync call syncAssignmentsToTodoist when   *)
(* they are triggered, and neither looks for a cycle in flight: a second   *)
(* cycle, in the second slot, starts while the first is between two of its *)
(* awaits. No request fails.                                               *)
(***************************************************************************)
MaxOverlapSyncRuns == 2

\* the task the update call of slot s for assignment a goes to is still there
Live(s, a) == ~Gone(s, a)

NextOverlap ==
    \/ /\ Quiet
       /\ \E c \in CourseIds, p \in MappedProjects : MapProject("u1", c, p)
       /\ Fault(FALSE)
    \/ /\ Quiet /\ Len(syncRuns) < MaxOverlapSyncRuns
       /\ \E rq \in SyncRequests : StartSync(1, rq[1], rq[2], NoSettings, "none")
       /\ Fault(FALSE)
    \/ /\ RunBusy(1) /\ Len(syncRuns) < MaxOverlapSyncRuns
       /\ \E rq \in SyncRequests : StartSync(2, rq[1], rq[2], NoSettings, "none")
       /\ Fault(FALSE)
    \/ \E s \in Slots : run[s].pc = "findCourses" /\ FindCourses(s, TRUE) /\ Fault(FALSE)
    \/ \E s \in Slots :
           run[s].pc = "findAssignments" /\ FindAssignments(s, TRUE) /\ Fault(FALSE)
    \/ \E s \in Slots :
           /\ run[s].pc = "index"
           /\ \E p \in run[s].projectIds, q \in TaskOrders : ListTasks(s, p, TRUE, q)
           /\ Fault(FALSE)
    \/ \E s \in Slots :
           /\ run[s].pc = "loop"
           /\ \E a \in run[s].todo : RelinkAssignment(s, a, Live(s, a), Live(s, a))
           /\ Fault(FALSE)
    \/ \E s \in Slots :
           /\ run[s].pc = "loop"
           /\ \E a \in run[s].todo : CreateTask(s, a, FreeTaskIds # {}, FreeTaskIds # {})
           /\ Fault(FALSE)
    \/ \E s \in Slots :
           /\ run[s].pc = "loop"
           /\ \E a \in run[s].todo : UpdateLinkedTask(s, a, Live(s, a), Live(s, a), TRUE)
           /\ Fault(FALSE)
    \/ \E s \in Slots : run[s].pc = "markSuccess" /\ MarkSuccess(s, TRUE) /\ Fault(FALSE)
    \/ /\ Quiet
       /\ FetchStart("u1", Null, TRUE, TRUE, ListedCourses, {})
       /\ Fault(FALSE)
    \/ /\ fetch.pc = "courses"
       /\ \E cc \in NextCourses :
              \E l \in Listings(cc) : FetchCourse(cc, TRUE, TRUE, TRUE, l, DOMAIN l)
       /\ Fault(FALSE)
    \/ FetchReturn /\ Fault(FALSE)
    \/ \E s \in Slots : SyncResponse(s) /\ Fault(FALSE)
    \/ FetchResponse /\ Fault(FALSE)

SpecOverlap == Init /\ [][NextOverlap]_vars

(***************************************************************************)
(* Fetch cycles between sync cycles. u1 fetches with or without the        *)
(* undated assignments, maps its courses and syncs them; the cycles do not *)
(* overlap, no request fails and nobody edits Todoist by hand.             *)
(***************************************************************************)
MaxLinkSyncRuns == 2
LinkSyncRequests == {rq \in SyncRequests : rq[1] = "u1" /\ rq[2] # {}}

NextLinks ==
    \/ /\ Quiet
       /\ \E c \in CourseIds, p \in MappedProjects : MapProject("u1", c, p)
       /\ Fault(FALSE)
    \/ /\ Quiet /\ Len(syncRuns) < MaxLinkSyncRuns
       /\ \E rq \in LinkSyncRequests : StartSync(1, rq[1], rq[2], NoSettings, "none")
       /\ Fault(FALSE)
    \/ run[1].pc = "findCourses" /\ FindCourses(1, TRUE) /\ Fault(FALSE)
    \/ run[1].pc = "findAssignments" /\ FindAssignments(1, TRUE) /\ Fault(FALSE)
    \/ /\ run[1].pc = "index"
       /\ \E p \in run[1].projectIds, q \in TaskOrders : ListTasks(1, p, TRUE, q)
       /\ Fault(FALSE)
    \/ /\ run[1].pc = "loop"
       /\ \E a \in run[1].todo : RelinkAssignment(1, a, Live(1, a), Live(1, a))
       /\ Fault(FALSE)
    \/ /\ run[1].pc = "loop"
       /\ \E a \in run[1].todo : CreateTask(1, a, FreeTaskIds # {}, FreeTaskIds # {})
       /\ Fault(FALSE)
    \/ /\ run[1].pc = "loop"
       /\ \E a \in run[1].todo : UpdateLinkedTask(1, a, Live(1, a), Live(1, a), TRUE)
       /\ Fault(FALSE)
    \/ run[1].pc = "markSuccess" /\ MarkSuccess(1, TRUE) /\ Fault(FALSE)
    \/ /\ Quiet
       /\ \E incl \in BOOLEAN : FetchStart("u1", Null, incl, TRUE, ListedCourses, {})
       /\ Fault(FALSE)
    \/ /\ fetch.pc = "courses"
       /\ \E cc \in NextCourses :
              \E l \in Listings(cc) : FetchCourse(cc, TRUE, TRUE, TRUE, l, DOMAIN l)
       /\ Fault(FALSE)
    \/ FetchReturn /\ Fault(FALSE)
    \/ SyncResponse(1) /\ Fault(FALSE)
    \/ FetchResponse /\ Fault(FALSE)

SpecLinks == Init /\ [][NextLinks]_vars

(***************************************************************************)
(* The fetch cycle on its own: two users with a Canvas account fetch with  *)
(* every option, Canvas lists items due yesterday, today, tomorrow and the *)
(* day after, undated ones and ones whose due_at does not parse; the       *)
(* server runs in Pacific time or in UTC, and a day may pass between two   *)
(* cycles.                                                                 *)
(***************************************************************************)
MaxDays == 1
FetchTzOffsets == {-8, 0}
DaysAheadInputs == {Null, 1}
\* due_at: 23:00 Pacific of the days Today - 1 .. Today + 2
FetchDueAts ==
    {Null, Unparseable} \cup {HoursPerDay * (Today + d) + 7 : d \in 0..3}
\* the items Canvas lists: named ones with every due_at, and one without a name
FetchItems ==
    {[name |-> "A", due_at |-> d] : d \in FetchDueAts}
        \cup {[name |-> "", due_at |-> HoursPerDay * (Today + 2) + 7]}
\* the courses Canvas lists for a user: the second user has one course
FetchCourses(u) == IF u = "u1" THEN CanvasCourseIds ELSE {1}
\* the answers to the two course requests, the active courses first: the
\* first course is active and all are pending; all are active and the request
\* for the pending ones fails; the request for the active ones fails
CourseAnswers(u) ==
    {<<{1}, FetchCourses(u)>>, <<FetchCourses(u), Failed>>, <<Failed, {}>>}
FetchListings(cc) ==
    {[ca \in SourceAssignmentIds(cc) |-> item] : item \in FetchItems}

InitFetch ==
    /\ todoistAccount = TodoistUsers
    /\ canvasAccount = FetchCanvasUsers
    /\ courses = [c \in CourseIds |-> NoCourse]
    /\ assignments = [a \in AssignmentIds |-> NoAssignment]
    /\ syncRuns = <<>>
    /\ tasks = [t \in TaskIds |-> FreeTask]
    /\ now = Now0
    /\ tzOffset \in FetchTzOffsets
    /\ run = [s \in Slots |-> IdleRun]
    /\ fetch = IdleFetch
    /\ prev = NoPrev
    /\ faults = 0
    /\ auto = IdleAuto
    /\ calc = IdleCalc

\* midnight passes
NextDay ==
    /\ Quiet
    /\ now < Now0 + HoursPerDay * MaxDays
    /\ now' = now + HoursPerDay
    /\ prev' = Touched
    /\ UNCHANGED <<storeVars, tasks, tzOffset, run, fetch, calc, auto>>

NextFetch ==
    \/ /\ Quiet
       /\ \E u \in Users, d \in DaysAheadInputs, incl \in BOOLEAN, ok \in Answers :
             \E ans \in CourseAnswers(u) :
                 /\ FetchStart(u, d, incl, ok, ans[1], ans[2])
                 /\ Fault(~ok \/ (u \in canvasAccount /\ Failed \in {ans[1], ans[2]}))
    \/ /\ fetch.pc = "courses"
       /\ \E cc \in NextCourses, ok, listOk \in Answers :
             \E l \in (IF listOk THEN FetchListings(cc) ELSE {NoListing}) :
                 \E reached \in SUBSET DOMAIN l :
                     /\ FetchCourse(cc, TRUE, ok, listOk, l, reached)
                     /\ Fault(~ok \/ ~listOk \/ reached # DOMAIN l)
    \/ FetchReturn /\ Fault(FALSE)
    \/ FetchResponse /\ Fault(FALSE)
    \/ NextDay /\ Fault(FALSE)

SpecFetch == InitFetch /\ [][NextFetch]_vars

(***************************************************************************)
(* The priority functions on their own: a settings input and a stored due  *)
(* date are normalized, classified and resolved as lines 203 and 311-327   *)
(* do.                                                                     *)
(***************************************************************************)
DiffDaysInputs == -3 .. 7
\* stored due dates: none, or midday UTC of a day around today
DueDateInputs == {Null} \cup {MiddayUTC(Today + d) : d \in DiffDaysInputs}
RangeInputs(k) ==
    {[enabled |-> e, to |-> t, todoistPriority |-> Missing] :
        e \in (IF k = "p4" THEN {Missing, <<TRUE>>} ELSE {Missing, <<FALSE>>}),
        t \in (IF k = "p4" THEN {Missing, <<2>>} ELSE {Missing, <<0>>, <<3>>, <<6>>})}
PrioritySettingsInputs ==
    {i \in [PriorityKeys -> UNION {RangeInputs(k) : k \in PriorityKeys}] :
        \A k \in PriorityKeys : i[k] \in RangeInputs(k)}

InitPriority ==
    /\ InitServer
    /\ calc \in {[IdleCalc EXCEPT !.pc = "input", !.input = i, !.dueDate = d] :
                    i \in PrioritySettingsInputs, d \in DueDateInputs}

Normalize ==
    /\ calc.pc = "input"
    /\ calc' = [calc EXCEPT !.pc = "normalized",
                            !.settings = normalizePrioritySettings(calc.input)]
    /\ UNCHANGED <<storeVars, tasks, envVars, run, fetch, prev, faults, auto>>

Classify ==
    /\ calc.pc = "normalized"
    /\ calc' = [calc EXCEPT
                   !.pc = "classified",
                   !.diffDays = IF calc.dueDate = Null THEN Null
                                ELSE diffDaysOf(calc.dueDate, now, tzOffset),
                   !.bucket = conceptualBucket(calc.dueDate, now, tzOffset, calc.settings)]
    /\ UNCHANGED <<storeVars, tasks, envVars, run, fetch, prev, faults, auto>>

Resolve ==
    /\ calc.pc = "classified"
    /\ calc' = [calc EXCEPT !.pc = "resolved",
                            !.priority = bucketToTodoistPriority(calc.bucket, calc.settings)]
    /\ UNCHANGED <<storeVars, tasks, envVars, run, fetch, prev, faults, auto>>

NextPriority == Normalize \/ Classify \/ Resolve

SpecPriority == InitPriority /\ [][NextPriority]_vars

(***************************************************************************)
(* The dates on their own: a due_at of Canvas is normalized as the fetch    *)
(* cycle does, and the stored date is rendered and compared with today as  *)
(* the sync cycle does, on a server in any timezone.                       *)
(***************************************************************************)
\* the offsets of the timezones in use, UTC-12 to UTC+14
ServerOffsets == -12 .. 14
\* every hour of today and of tomorrow, in UTC
DueAtInputs ==
    {Null, Unparseable}
        \cup (HoursPerDay * Today .. HoursPerDay * (Today + 2) - 1)

InitDates ==
    /\ InitStore
    /\ now = Now0
    /\ tzOffset \in ServerOffsets
    /\ run = [s \in Slots |-> IdleRun]
    /\ fetch = IdleFetch
    /\ prev = NoPrev
    /\ faults = 0
    /\ auto = IdleAuto
    /\ calc \in {[IdleCalc EXCEPT !.pc = "raw", !.dueAt = d] : d \in DueAtInputs}

\* line 695 of the fetch cycle, and line 146 of services/canvasService.ts
NormalizeDate ==
    /\ calc.pc = "raw"
    /\ calc' = [calc EXCEPT !.pc = "stored",
                            !.dueDate = normalizeDueDate(calc.dueAt),
                            !.byHour = normalizeDueDateByHour(calc.dueAt, tzOffset)]
    /\ UNCHANGED <<storeVars, tasks, envVars, run, fetch, prev, faults, auto>>

\* lines 311-327 of the sync cycle
RenderDate ==
    /\ calc.pc = "stored"
    /\ calc' = [calc EXCEPT
                   !.pc = "rendered",
                   !.rendered = toTodoistDate(calc.dueDate, tzOffset),
                   !.diffDays = IF calc.dueDate = Null THEN Null
                                ELSE diffDaysOf(calc.dueDate, now, tzOffset)]
    /\ UNCHANGED <<storeVars, tasks, envVars, run, fetch, prev, faults, auto>>

NextDates == NormalizeDate \/ RenderDate

SpecDates == InitDates /\ [][NextDates]_vars

(***************************************************************************)
(* The auto-sync scheduler of src/unnamed/part_001: POST /api/auto-sync,   *)
(* configureAutoSync and runAutoSync. The endpoint is answered at any      *)
(* time, also while an execution of runAutoSync is suspended at one of its *)
(* awaits. Both users have saved their Canvas and Todoist tokens; no       *)
(* request fails, and one execution is in flight at a time.                *)
(***************************************************************************)
MaxTimers == 2
MaxAutoSyncRuns == 2
DefaultIntervalMinutes == 60
TimerIds == 1 .. MaxTimers
AutoUsers == {"u1", "u2"}
\* the fields `enabled` and `intervalMinutes` of the request body; Missing
\* stands for a field that is absent or not of its type
EnabledInputs == {Missing, <<FALSE>>, <<TRUE>>}
IntervalInputs == {Missing, <<0>>, <<-5>>, <<5>>}

\* the handle setInterval returns: a timer that is not set
NewTimer(timers) == CHOOSE h \in TimerIds \ timers : \A g \in TimerIds \ timers : h <= g

\* a configureAutoSync that sets the new timer and lets the old one run
configureAutoSyncKeepsTimer(a, intervalMinutes) ==
    IF intervalMinutes > 0
    THEN [a EXCEPT !.autoSyncIntervalMinutes = intervalMinutes,
                   !.autoSyncTimer = NewTimer(a.timers),
                   !.timers = a.timers \cup {NewTimer(a.timers)}]
    ELSE [a EXCEPT !.autoSyncIntervalMinutes = intervalMinutes]

\* configureAutoSync, lines 55-68
configureAutoSync(a, intervalMinutes) ==
    LET cleared == IF a.autoSyncTimer # Null
                   THEN [a EXCEPT !.timers = @ \ {a.autoSyncTimer}, !.autoSyncTimer = Null]
                   ELSE a
    IN IF intervalMinutes > 0
       THEN [cleared EXCEPT !.autoSyncIntervalMinutes = intervalMinutes,
                            !.autoSyncTimer = NewTimer(cleared.timers),
                            !.timers = cleared.timers \cup {NewTimer(cleared.timers)}]
       ELSE [cleared EXCEPT !.autoSyncIntervalMinutes = intervalMinutes]

\* line 443
minutesOf(intervalMinutes) ==
    IF intervalMinutes # Missing /\ intervalMinutes[1] > 0
    THEN intervalMinutes[1] ELSE DefaultIntervalMinutes

\* POST /api/auto-sync, lines 430-446
PostAutoSync(userId, enabled, intervalMinutes) ==
    /\ TimerIds \ auto.timers # {}
    /\ auto' = IF ~OrElse(enabled, FALSE)
               THEN [configureAutoSync(auto, 0) EXCEPT !.autoSyncUserId = NoUser]
               ELSE configureAutoSync([auto EXCEPT !.autoSyncUserId = userId],
                                      minutesOf(intervalMinutes))
    /\ UNCHANGED <<storeVars, tasks, envVars, run, fetch, prev, faults, calc>>

\* the timer fires, lines 33-37: runAutoSync reads autoSyncUserId and calls
\* the fetch cycle with it
AutoTick ==
    /\ auto.timers # {}
    /\ auto.exec.pc = "idle"
    /\ Quiet
    /\ Len(syncRuns) < MaxAutoSyncRuns
    /\ auto' = [auto EXCEPT !.exec =
           IF auto.autoSyncUserId = NoUser THEN IdleExec
           ELSE [IdleExec EXCEPT !.pc = "fetch", !.fetchUser = auto.autoSyncUserId]]
    /\ UNCHANGED <<storeVars, tasks, envVars, run, fetch, prev, faults, calc>>

\* lines 40-43, when the fetch cycle has returned: autoSyncUserId is read
\* again for the query of the mapped courses; Prisma rejects a null userId
AutoQuery ==
    LET u == auto.autoSyncUserId
    IN /\ auto.exec.pc = "fetch"
       /\ fetch.pc = "returned"
       /\ fetch' = IdleFetch
       /\ auto' = [auto EXCEPT !.exec =
              IF u = NoUser THEN [@ EXCEPT !.pc = "idle", !.queryUser = u]
              ELSE [@ EXCEPT !.pc = "mapped", !.queryUser = u,
                             !.mappedCourses =
                                 {c \in CourseIds :
                                     /\ courses[c].exists
                                     /\ courses[c].userId = u
                                     /\ courses[c].todoistProjectId # NoProject}]]
       /\ UNCHANGED <<storeVars, tasks, envVars, run, prev, faults, calc>>

\* lines 45-47, when the query has answered: no mapped course ends the
\* execution; otherwise autoSyncUserId is read a third time for the sync
\* cycle, which throws on a null userId
AutoSync ==
    LET u == auto.autoSyncUserId
    IN /\ auto.exec.pc = "mapped"
       /\ auto' = [auto EXCEPT !.exec =
              IF auto.exec.mappedCourses = {} THEN [@ EXCEPT !.pc = "idle"]
              ELSE IF u = NoUser THEN [@ EXCEPT !.pc = "idle", !.syncUser = u]
              ELSE [@ EXCEPT !.pc = "sync", !.syncUser = u]]
       /\ UNCHANGED <<storeVars, tasks, envVars, run, fetch, prev, faults, calc>>

\* lines 48-52: the sync cycle has ended, or the fetch cycle has thrown and
\* the catch block has logged it
AutoEnd ==
    /\ \/ auto.exec.pc = "sync" /\ run[1].pc \in {"returned", "thrown"}
       \/ auto.exec.pc = "fetch" /\ fetch.pc = "thrown"
    /\ run' = [run EXCEPT ![1] = IdleRun]
    /\ fetch' = IdleFetch
    /\ auto' = [auto EXCEPT !.exec.pc = "idle"]
    /\ UNCHANGED <<storeVars, tasks, envVars, prev, faults, calc>>

InitAuto ==
    /\ todoistAccount = TodoistUsers
    /\ canvasAccount = FetchCanvasUsers
    /\ courses = [c \in CourseIds |-> NoCourse]
    /\ assignments = [a \in AssignmentIds |-> NoAssignment]
    /\ syncRuns = <<>>
    /\ tasks = [t \in TaskIds |-> FreeTask]
    /\ now = Now0
    /\ tzOffset \in TzOffsets
    /\ run = [s \in Slots |-> IdleRun]
    /\ fetch = IdleFetch
    /\ prev = NoPrev
    /\ faults = 0
    /\ calc = IdleCalc
    /\ auto = IdleAuto

NextAuto ==
    \/ \E u \in AutoUsers, enabled \in EnabledInputs, m \in IntervalInputs :
           PostAutoSync(u, enabled, m)
    \/ AutoTick
    \/ /\ auto.exec.pc = "fetch" /\ fetch.pc = "idle"
       /\ FetchStart(auto.exec.fetchUser, Null, TRUE, TRUE,
                     FetchCourses(auto.exec.fetchUser), {})
       /\ Fault(FALSE)
    \/ /\ fetch.pc = "courses"
       /\ \E cc \in NextCourses :
              \E l \in Listings(cc) : FetchCourse(cc, TRUE, TRUE, TRUE, l, DOMAIN l)
       /\ Fault(FALSE)
    \/ FetchReturn /\ Fault(FALSE)
    \/ AutoQuery
    \/ AutoSync
    \/ /\ auto.exec.pc = "sync" /\ run[1].pc = "idle"
       /\ StartSync(1, auto.exec.syncUser, auto.exec.mappedCourses, NoSettings, "none")
       /\ Fault(FALSE)
    \/ run[1].pc = "findCourses" /\ FindCourses(1, TRUE) /\ Fault(FALSE)
    \/ run[1].pc = "findAssignments" /\ FindAssignments(1, TRUE) /\ Fault(FALSE)
    \/ /\ run[1].pc = "index"
       /\ \E p \in run[1].projectIds, q \in TaskOrders : ListTasks(1, p, TRUE, q)
       /\ Fault(FALSE)
    \/ /\ run[1].pc = "loop"
       /\ \E a \in run[1].todo : RelinkAssignment(1, a, Live(1, a), Live(1, a))
       /\ Fault(FALSE)
    \/ /\ run[1].pc = "loop"
       /\ \E a \in run[1].todo : CreateTask(1, a, FreeTaskIds # {}, FreeTaskIds # {})
       /\ Fault(FALSE)
    \/ /\ run[1].pc = "loop"
       /\ \E a \in run[1].todo : UpdateLinkedTask(1, a, Live(1, a), Live(1, a), TRUE)
       /\ Fault(FALSE)
    \/ run[1].pc = "markSuccess" /\ MarkSuccess(1, TRUE) /\ Fault(FALSE)
    \/ AutoEnd
    \/ /\ Quiet /\ auto.exec.pc = "idle"
       /\ \E c \in CourseIds, p \in MappedProjects : MapProject(c[1], c, p)
       /\ Fault(FALSE)

SpecAuto == InitAuto /\ [][NextAuto]_vars

(***************************************************************************)
(* Properties of the sync cycle. Cycle is the cycle of the first slot.     *)
(***************************************************************************)
Cycle == run[1]
ProjectOf(a) == Cycle.courseProject[a[1]]
NameOf(a) == Cycle.assignments[a].name
\* the cycle takes assignment a in this step
Takes(a) == Cycle.pc = "loop" /\ a \in Cycle.todo /\ a \notin run'[1].todo
\* the live tasks of a project that carry a title, whitespace at its ends aside
Matching(projectId, title) ==
    {t \in LiveTasks : tasks[t].project_id = projectId
                       /\ Trim(tasks[t].content) = Trim(title)}
\* the row of the cycle's SyncRun
OwnSyncRun == syncRuns[Cycle.syncRunId]
Summary(created, skipped) == [text |-> "Created, skipped", a |-> created, b |-> skipped]
SkippedOutcomes ==
    {"relinked", "createFailed", "createNotStored", "updateFailed", "updateNotStored"}
\* the cycle ended in an error that no store failure and no missing
\* configuration explains
UnexplainedError ==
    /\ Cycle.pc \in {"markError", "thrown"}
    /\ ~Cycle.storeFailed
    /\ Cycle.error # "Todoist configuration not found"

\* C1: a cycle that follows a cycle over the same user and courses in which
\* every step succeeded, with nothing changed in between, finds every
\* assignment in scope linked and creates no task.
Idempotence ==
    Cycle.prevOk =>
        /\ Cycle.created = 0
        /\ \A a \in AssignmentIds :
               Cycle.assignments[a].exists => Cycle.assignments[a].todoistTaskId # Null

IdempotenceWitness ==
    /\ Cycle.prevOk
    /\ Cycle.pc = "returned"
    /\ \E a \in AssignmentIds : Cycle.outcome[a] = "updated"

\* C2: when the cycle takes an unlinked assignment whose project it has listed
\* and a task that was there before the cycle carries the assignment's name in
\* that project, and its requests succeed, it stores the id of such a task as
\* the link, creates no task, and counts the assignment as skipped, not created.
RelinkStep ==
    \A a \in AssignmentIds :
        (/\ Takes(a)
         /\ Cycle.assignments[a].todoistTaskId = Null
         /\ ProjectOf(a) \in Cycle.indexed
         /\ Matching(ProjectOf(a), NameOf(a)) \cap Cycle.before # {}
         /\ run'[1].outcome[a] \in {"relinked", "created"})
        => /\ run'[1].outcome[a] = "relinked"
           /\ assignments'[a].todoistTaskId
                  \in Matching(ProjectOf(a), NameOf(a)) \cap Cycle.before
           /\ tasks'[assignments'[a].todoistTaskId].state = "live"
           /\ {t \in TaskIds : tasks'[t].state = "live"} = LiveTasks
           /\ run'[1].created = Cycle.created
           /\ run'[1].skipped = Cycle.skipped + 1

Relink == [][RelinkStep]_vars

RelinkWitness ==
    /\ Cycle.pc = "returned"
    /\ \E a \in AssignmentIds :
          /\ Cycle.outcome[a] = "relinked"
          /\ assignments[a].todoistTaskId \in Cycle.before
          /\ tasks[assignments[a].todoistTaskId].content # assignments[a].name

\* C3: when every request that can succeed does, a cycle that takes a linked
\* assignment whose task is gone clears the link and counts the assignment as
\* skipped; a later cycle that takes the assignment so unlinked, with no task
\* of its name in the project, creates a task of that name, stores its id as
\* the link and counts it as created.
RecreationStep ==
    \A a \in AssignmentIds :
        Takes(a) =>
            LET row == Cycle.assignments[a]
                new == assignments'[a].todoistTaskId
            IN /\ (row.todoistTaskId # Null /\ tasks[row.todoistTaskId].state # "live")
                  => /\ assignments'[a].todoistTaskId = Null
                     /\ run'[1].skipped = Cycle.skipped + 1
                     /\ run'[1].created = Cycle.created
                     /\ tasks' = tasks
               /\ (/\ row.todoistTaskId = Null
                   /\ row.lastSyncedAt # Null
                   /\ Matching(ProjectOf(a), NameOf(a)) = {}
                   /\ FreeTaskIds # {})
                  => /\ new \in FreeTaskIds
                     /\ tasks'[new].state = "live"
                     /\ tasks'[new].content = row.name
                     /\ tasks'[new].project_id = ProjectOf(a)
                     /\ run'[1].created = Cycle.created + 1
                     /\ run'[1].skipped = Cycle.skipped

RecreationAfterDeletion == [][RecreationStep]_vars

RecreationWitness ==
    \E a \in AssignmentIds :
        /\ Cycle.assignments[a].todoistTaskId = Null
        /\ Cycle.assignments[a].lastSyncedAt # Null
        /\ Cycle.outcome[a] = "created"
        /\ assignments[a].todoistTaskId # Null

\* C4: the SyncRun of a cycle is there, RUNNING, before the cycle asks Todoist
\* for anything and while the cycle works; when the cycle returns it is
\* SUCCESS with the counts the cycle returns, when the cycle throws and the
\* error handler has written it is ERROR with the error's message; a row that
\* is no longer RUNNING is not written again, and a new row is RUNNING.
Bracketed ==
    /\ (Cycle.listed # {} \/ \E a \in AssignmentIds : Cycle.outcome[a] # "none")
       => Cycle.syncRunId # Null
    /\ Cycle.syncRunId # Null =>
          /\ Cycle.syncRunId \in 1..Len(syncRuns)
          /\ OwnSyncRun.userId = Cycle.userId
          /\ RunBusy(1) => OwnSyncRun.status = "RUNNING" /\ OwnSyncRun.finishedAt = Null
          /\ Cycle.pc = "returned" =>
                /\ OwnSyncRun.status = "SUCCESS"
                /\ OwnSyncRun.finishedAt # Null
                /\ OwnSyncRun.message = Summary(Cycle.created, Cycle.skipped)
          /\ (Cycle.pc = "thrown" /\ Cycle.handled) =>
                /\ OwnSyncRun.status = "ERROR"
                /\ OwnSyncRun.finishedAt # Null
                /\ OwnSyncRun.message.text = Cycle.error

FinalizedOnce ==
    /\ Len(syncRuns') >= Len(syncRuns)
    /\ \A i \in 1..Len(syncRuns) :
          syncRuns[i].status # "RUNNING" => syncRuns'[i] = syncRuns[i]
    /\ \A i \in (Len(syncRuns) + 1)..Len(syncRuns') :
          /\ syncRuns'[i].status = "RUNNING"
          /\ tasks' = tasks

SyncRunBracketing == []Bracketed /\ [][FinalizedOnce]_vars

SyncRunBracketingWitness ==
    /\ Cycle.pc = "thrown"
    /\ Cycle.handled
    /\ Cycle.listed # {}
    /\ \E i \in 1..Len(syncRuns) : i # Cycle.syncRunId /\ syncRuns[i].status = "SUCCESS"

\* C5: a cycle ends in an error only when an access to the store fails or the
\* configuration is missing, never because a request to Todoist fails; a
\* cycle that returns has taken every assignment in scope and left its
\* SyncRun SUCCESS; the skipped count counts the failed creations, and the
\* created count the creations that succeeded.
ApiFailuresAreSkipped ==
    /\ ~UnexplainedError
    /\ Cycle.pc \in {"markSuccess", "returned"} =>
          /\ Cycle.todo = {}
          /\ \A a \in AssignmentIds : Cycle.assignments[a].exists => Cycle.outcome[a] # "none"
    /\ (Cycle.pc = "returned" /\ Cycle.syncRunId # Null) => OwnSyncRun.status = "SUCCESS"
    /\ Cycle.skipped = Cardinality({a \in AssignmentIds : Cycle.outcome[a] \in SkippedOutcomes})
    /\ Cycle.created = Cardinality({a \in AssignmentIds : Cycle.outcome[a] = "created"})

ApiFailuresAreSkippedWitness ==
    /\ Cycle.pc = "returned"
    /\ Cycle.syncRunId # Null
    /\ OwnSyncRun.status = "SUCCESS"
    /\ \E a, b \in AssignmentIds :
          /\ Cycle.outcome[a] = "createFailed"
          /\ Cycle.outcome[b] \in {"created", "relinked", "updated"}

\* C6: a course given to the cycle that is not the requesting user's, or has no
\* project, is not among the courses of the cycle; the cycle takes none of its
\* assignments, asks Todoist only for the projects of the other courses, ends
\* in no error because of it, and leaves the rows of its assignments as they
\* are.
Excluded(c) ==
    /\ c \in Cycle.courseIds
    /\ ~(/\ courses[c].exists
         /\ courses[c].userId = Cycle.userId
         /\ courses[c].todoistProjectId # NoProject)

ExcludedUntouched ==
    /\ \A c \in CourseIds :
          Excluded(c) =>
              /\ c \notin Cycle.courses
              /\ \A a \in AssignmentIds :
                    a[1] = c => a \notin Cycle.todo /\ Cycle.outcome[a] = "none"
    /\ Cycle.listed \subseteq
          {courses[c].todoistProjectId : c \in {d \in Cycle.courseIds : ~Excluded(d)}}
    /\ ~UnexplainedError

ExcludedRowsKept ==
    \A a \in AssignmentIds :
        (RunBusy(1) /\ Excluded(a[1])) => assignments'[a] = assignments[a]

CoursePreconditions == []ExcludedUntouched /\ [][ExcludedRowsKept]_vars

CoursePreconditionsWitness ==
    /\ Cycle.pc = "returned"
    /\ \E c \in CourseIds, a, b \in AssignmentIds :
          /\ Excluded(c)
          /\ a[1] = c
          /\ assignments[a].exists
          /\ assignments[a].todoistTaskId # Null
          /\ Cycle.outcome[b] = "created"

\* C7 as stated: a cycle that returns with no course in scope has created and
\* skipped nothing and has a SyncRun of its own, finalized as SUCCESS.
TrivialRunLeavesSyncRun ==
    (Cycle.pc = "returned" /\ Cycle.courses = {}) =>
        /\ Cycle.created = 0
        /\ Cycle.skipped = 0
        /\ Cycle.syncRunId # Null
        /\ OwnSyncRun.status = "SUCCESS"

\* C7, amended: a cycle that returns with no course in scope has created and
\* skipped nothing; when its course list is not empty it has a SyncRun of its
\* own, finalized as SUCCESS with a summary of zero created and zero skipped;
\* when its course list is empty it returns at once and writes no SyncRun.
TrivialRun ==
    (Cycle.pc = "returned" /\ Cycle.courses = {}) =>
        /\ Cycle.created = 0
        /\ Cycle.skipped = 0
        /\ Cycle.courseIds # {} =>
              /\ Cycle.syncRunId # Null
              /\ OwnSyncRun.status = "SUCCESS"
              /\ OwnSyncRun.message = Summary(0, 0)
        /\ Cycle.courseIds = {} => Cycle.syncRunId = Null

EmptyListStep ==
    /\ (Cycle.pc = "idle" /\ run'[1].courseIds = {} /\ run'[1].pc # "idle")
       => run'[1].pc \in {"returned", "thrown"} /\ syncRuns' = syncRuns
    /\ (Cycle.pc = "idle" /\ run'[1].pc = "returned") => run'[1].courseIds = {}

TrivialRunAmended == []TrivialRun /\ [][EmptyListStep]_vars

TrivialRunWitness ==
    /\ Cycle.pc = "returned"
    /\ Cycle.courseIds = {}
    /\ \E i \in 1..Len(syncRuns) :
          syncRuns[i].status = "SUCCESS" /\ syncRuns[i].message = Summary(0, 0)

\* C8 as stated: when a cycle has returned, the task linked to each assignment
\* whose creation or update succeeded in the cycle has the priority computed
\* from the assignment's due date and the cycle's settings, and as its due
\* date the day of the assignment's due date, or none for an undated one.
DueDay(dueDate) == IF dueDate = Null THEN Null ELSE dueDate \div HoursPerDay
ExpectedPriority(a) ==
    bucketToTodoistPriority(
        conceptualBucket(assignments[a].dueDate, now, tzOffset, Cycle.settings),
        Cycle.settings)

LocalDueDateWins ==
    Cycle.pc = "returned" =>
        \A a \in AssignmentIds :
            Cycle.outcome[a] \in {"created", "relinked", "updated"} =>
                LET task == tasks[assignments[a].todoistTaskId]
                IN /\ task.state = "live"
                   /\ task.priority = ExpectedPriority(a)
                   /\ task.due = DueDay(assignments[a].dueDate)

\* C9 as stated: when a cycle has returned and every request of it succeeded,
\* the task linked to each assignment the cycle took carries the assignment's
\* name as its title, whitespace at its ends aside.
TaskTitleIsName ==
    (Cycle.pc = "returned" /\ ~Cycle.apiFailed /\ ~Cycle.storeFailed) =>
        \A a \in AssignmentIds :
            Cycle.outcome[a] # "none" =>
                /\ assignments[a].todoistTaskId # Null
                /\ Trim(tasks[assignments[a].todoistTaskId].content)
                       = Trim(assignments[a].name)

\* C10: for every offset in days that is zero or negative and every settings
\* input, computeConceptualBucket gives the bucket p1.
OverdueIsP1 ==
    (calc.pc \in {"classified", "resolved"} /\ calc.dueDate # Null /\ calc.diffDays <= 0)
        => calc.bucket = "p1"

OverdueIsP1Witness ==
    /\ calc.pc = "classified"
    /\ calc.diffDays < 0
    /\ calc.settings["p1"].to = 1
    /\ ~calc.settings["p1"].enabled
    /\ calc.bucket = "p1"

(***************************************************************************)
(* Properties of the priority functions.                                   *)
(***************************************************************************)
\* a number of days brought into 1..5
Clamped(d) == IF d < 1 THEN 1 ELSE IF d > 5 THEN 5 ELSE d
Classified == calc.pc \in {"classified", "resolved"}
EnabledKeys == {k \in PriorityKeys : calc.settings[k].enabled}
\* the `to` a settings input gives for a bucket, or the default
GivenTo(k) == OrElse(calc.input[k].to, DefaultTo(k))
\* the settings with other enabled flags
WithEnabled(settings, flags) ==
    [k \in PriorityKeys |-> [settings[k] EXCEPT !.enabled = flags[k]]]

\* C11: for a due date one day or more ahead, with normalized thresholds
\* t1 <= t2 <= t3, the bucket is the first of p1, p2, p3 whose threshold is not
\* below the days brought into 1..5, and p4 when there is none; with the
\* thresholds 2, 3, 4 two days give p1 and six days give p4.
ClassifiedByThresholds ==
    (Classified /\ calc.dueDate # Null /\ calc.diffDays >= 1) =>
        LET day == Clamped(calc.diffDays)
            t1 == calc.settings["p1"].to
            t2 == calc.settings["p2"].to
            t3 == calc.settings["p3"].to
        IN /\ t1 <= t2 /\ t2 <= t3
           /\ calc.bucket = IF day <= t1 THEN "p1"
                            ELSE IF day <= t2 THEN "p2"
                            ELSE IF day <= t3 THEN "p3"
                            ELSE "p4"
           /\ (<<t1, t2, t3>> = <<2, 3, 4>> /\ calc.diffDays = 2) => calc.bucket = "p1"
           /\ (<<t1, t2, t3>> = <<2, 3, 4>> /\ calc.diffDays = 6) => calc.bucket = "p4"

ClassifiedByThresholdsWitness ==
    /\ calc.pc = "classified"
    /\ calc.diffDays = 6
    /\ <<calc.settings["p1"].to, calc.settings["p2"].to, calc.settings["p3"].to>>
           = <<2, 3, 4>>
    /\ calc.bucket = "p4"

\* C12: whatever the settings input, the normalized thresholds lie in 1..5,
\* those of p1, p2, p3 do not decrease, that of p1 is the clamped input, that
\* of p2 and of p3 is the clamped input unless it is below the threshold
\* before it, and is then a greater one; the threshold of p4 is 5.
ThresholdsNormalized ==
    calc.pc \in {"normalized", "classified", "resolved"} =>
        LET to(k) == calc.settings[k].to
        IN /\ \A k \in PriorityKeys : to(k) \in 1..5
           /\ to("p1") <= to("p2") /\ to("p2") <= to("p3")
           /\ to("p4") = 5
           /\ to("p1") = Clamped(GivenTo("p1"))
           /\ to("p2") >= Clamped(GivenTo("p2"))
           /\ Clamped(GivenTo("p2")) >= to("p1") => to("p2") = Clamped(GivenTo("p2"))
           /\ to("p3") >= Clamped(GivenTo("p3"))
           /\ Clamped(GivenTo("p3")) >= to("p2") => to("p3") = Clamped(GivenTo("p3"))

ThresholdsNormalizedWitness ==
    /\ calc.pc = "normalized"
    /\ calc.input["p1"].to = <<6>>
    /\ calc.input["p2"].to = <<3>>
    /\ calc.input["p4"].to = <<2>>
    /\ calc.settings["p2"].to = 5
    /\ calc.settings["p4"].to = 5

\* C13: when a bucket is enabled, the level bucketToTodoistPriority gives is
\* the configured level of an enabled bucket.
ResolvesToEnabled ==
    (calc.pc = "resolved" /\ EnabledKeys # {}) =>
        calc.priority \in {calc.settings[k].todoistPriority : k \in EnabledKeys}

ResolvesToEnabledWitness ==
    /\ calc.pc = "resolved"
    /\ calc.bucket \notin EnabledKeys
    /\ EnabledKeys # {}
    /\ calc.priority # calc.settings[calc.bucket].todoistPriority

ClassificationIgnoresEnabled ==
    Classified =>
        /\ \A flags \in [PriorityKeys -> BOOLEAN] :
               conceptualBucket(calc.dueDate, now, tzOffset,
                                WithEnabled(calc.settings, flags)) = calc.bucket
        /\ calc.dueDate = Null => calc.bucket = "p4"

ClassificationIgnoresEnabledWitness ==
    /\ calc.pc = "classified"
    /\ calc.dueDate = Null
    /\ ~calc.settings["p4"].enabled
    /\ calc.settings["p3"].enabled
    /\ calc.bucket = "p4"

(***************************************************************************)
(* Properties of the fetch cycle                                           *)
(***************************************************************************)
\* today's calendar day on the server
TodayOf == LocalDay(now, tzOffset)

\* the calendar day of the canonical due date of a listed item, Null when the
\* item has none
CanonicalDay(item) ==
    IF item.due_at \in {Null, Unparseable} THEN Null
    ELSE LocalDay(item.due_at, PacificOffset)

\* the items the current cycle went through
SeenItems ==
    UNION {{<<cc, ca>> : ca \in DOMAIN fetch.seen[cc]} : cc \in CanvasCourseIds}

SeenItem(i) == fetch.seen[i[1]][i[2]]

\* the item was stored by the current cycle
Upserted(i) == <<<<fetch.userId, i[1]>>, i[2]>> \in fetch.upserted

\* C16: a dated, named item that is not past due is stored when there is no
\* look-ahead limit, and with a limit of N days exactly when the calendar days
\* from today to its canonical due date are at most N
LookAheadWindow ==
    \A i \in SeenItems :
        LET day == CanonicalDay(SeenItem(i))
        IN (SeenItem(i).name # "" /\ day # Null /\ day >= TodayOf) =>
               (Upserted(i) <=>
                    \/ fetch.maxDaysAhead = Null
                    \/ day - TodayOf <= fetch.maxDaysAhead)

PastDuePurged ==
    fetch.pc = "returned" =>
        \A a \in AssignmentIds :
            (/\ assignments[a].exists
             /\ courses[a[1]].exists
             /\ courses[a[1]].userId = fetch.userId
             /\ assignments[a].dueDate # Null) =>
                DueDay(assignments[a].dueDate) >= TodayOf

\* the cycle is past its purge: it reached the course listing, or threw there
\* or later
PurgeDone ==
    \/ fetch.pc \in {"courses", "returned"}
    \/ fetch.pc = "thrown" /\ (fetch.error = "courses" \/ fetch.listed # {})

\* the stored assignments of a user that have no due date
UndatedOf(userId) ==
    {a \in AssignmentIds :
        /\ assignments[a].exists
        /\ assignments[a].dueDate = Null
        /\ courses[a[1]].exists
        /\ courses[a[1]].userId = userId}

\* C19: a fetch cycle that excludes undated items deletes the stored undated
\* assignments of its user at its start, also when the first request to Canvas
\* then fails, and none exists while it runs and when it ends; no assignment of
\* another user and no dated assignment is ever deleted
UndatedPurge ==
    /\ [](PurgeDone /\ ~fetch.includeNoDueDate => UndatedOf(fetch.userId) = {})
    /\ [][\A a \in AssignmentIds :
              (assignments[a].exists /\ ~assignments'[a].exists) =>
                  /\ fetch.pc = "idle"
                  /\ ~fetch'.includeNoDueDate
                  /\ courses[a[1]].userId = fetch'.userId
                  /\ assignments[a].dueDate = Null]_vars

\* a cycle that deleted an undated assignment of its user has ended, while an
\* undated assignment of another user and a dated one of its user that it did
\* not store again are still there
UndatedPurgeWitness ==
    /\ fetch.pc = "returned"
    /\ ~fetch.includeNoDueDate
    /\ fetch.purged # {}
    /\ \E u \in FetchCanvasUsers \ {fetch.userId} : UndatedOf(u) # {}
    /\ \E a \in AssignmentIds \ fetch.upserted :
           /\ assignments[a].exists
           /\ assignments[a].dueDate # Null
           /\ courses[a[1]].userId = fetch.userId

\* the in-scope items of a course are stored as Canvas listed them
StoredAsListed(cc) ==
    /\ courses[<<fetch.userId, cc>>].exists
    /\ \A ca \in DOMAIN fetch.seen[cc] :
           Stored(fetch.seen[cc][ca], fetch) =>
               LET row == assignments[<<<<fetch.userId, cc>>, ca>>]
               IN /\ row.exists
                  /\ row.name = fetch.seen[cc][ca].name
                  /\ row.dueDate = normalizeDueDate(fetch.seen[cc][ca].due_at)

\* C20: an assignments request that fails does not end the cycle: the cycle
\* goes on with the next course and writes no assignment in that step; the
\* course contributes no upserted assignment; the cycle throws only for its
\* configuration, its course listing or the store; and when it returns, every
\* course is done and, unless the store failed, the in-scope assignments of
\* every other listed course are stored
PerCourseIsolation ==
    /\ [](/\ fetch.pc = "thrown" =>
                 \/ fetch.storeFailed
                 \/ fetch.error \in {"Canvas configuration not found", "courses"}
          /\ \A cc \in fetch.listFailed :
                 /\ fetch.seen[cc] = NoListing
                 /\ \A a \in fetch.upserted : a[1] # <<fetch.userId, cc>>
          /\ fetch.pc = "returned" =>
                 /\ fetch.coursesTodo = <<>>
                 /\ fetch.coursesProcessed = Cardinality(fetch.listed)
                 /\ ~fetch.storeFailed =>
                        \A cc \in fetch.listed \ fetch.listFailed : StoredAsListed(cc))
    /\ [][fetch'.listFailed # fetch.listFailed /\ fetch.pc = "courses" =>
              /\ fetch'.pc = "courses"
              /\ assignments' = assignments
              /\ fetch'.assignmentsUpserted = fetch.assignmentsUpserted]_vars

\* a cycle has returned in which the assignments request of the first course
\* failed and an assignment of the second course was stored
PerCourseIsolationWitness ==
    /\ fetch.pc = "returned"
    /\ fetch.listFailed = {1}
    /\ fetch.listed = {1, 2}
    /\ <<<<fetch.userId, 2>>, 1>> \in fetch.upserted
    /\ fetch.assignmentsUpserted = 1

LinkNeverInferred ==
    [][\A c \in CourseIds :
           /\ (courses[c].exists /\
               courses'[c].todoistProjectId # courses[c].todoistProjectId) =>
                  UNCHANGED <<run, fetch>>
           /\ (~courses[c].exists /\ courses'[c].exists) =>
                  /\ fetch.pc = "courses"
                  /\ courses'[c].todoistProjectId = NoProject]_vars

\* a fetch cycle has gone through a course that was mapped before and is
\* still mapped, and through one that is not mapped
LinkNeverInferredWitness ==
    /\ fetch.pc = "returned"
    /\ fetch.listed = {1, 2}
    /\ fetch.coursesProcessed = 2
    /\ courses[<<fetch.userId, 1>>].todoistProjectId = "P1"
    /\ courses[<<fetch.userId, 2>>].exists
    /\ courses[<<fetch.userId, 2>>].todoistProjectId = NoProject
    /\ syncRuns # <<>>

\* the Assignment table after the current cycle is run once more with the same
\* options and the same answers of Canvas
FetchedAgain ==
    LET purged == IF fetch.includeNoDueDate THEN assignments
                  ELSE purgeUndated(assignments, fetch.userId)
    IN [a \in AssignmentIds |->
           IF /\ a[1][1] = fetch.userId
              /\ a[2] \in DOMAIN fetch.seen[a[1][2]]
              /\ Stored(fetch.seen[a[1][2]][a[2]], fetch)
           THEN upsertAssignment(purged[a], fetch.seen[a[1][2]][a[2]])
           ELSE purged[a]]

\* C26: the rows are one per key: a Course row belongs to the user of its key
\* and an Assignment row to a stored course; and a fetch cycle that has
\* returned without a failure leaves a store that the same cycle, run again
\* against the same listings, does not change
FetchIdempotent ==
    /\ \A c \in CourseIds : courses[c].exists => courses[c].userId = c[1]
    /\ \A a \in AssignmentIds : assignments[a].exists => courses[a[1]].exists
    /\ (fetch.pc = "returned" /\ ~fetch.storeFailed /\ fetch.listFailed = {}) =>
           /\ FetchedAgain = assignments
           /\ \A cc \in fetch.listed :
                  upsertCourse(courses[<<fetch.userId, cc>>], fetch.userId)
                      = courses[<<fetch.userId, cc>>]

\* a cycle of the next day has returned without a failure and has stored two
\* assignments, a dated one among them
FetchIdempotentWitness ==
    /\ fetch.pc = "returned" /\ ~fetch.storeFailed /\ fetch.listFailed = {}
    /\ fetch.assignmentsUpserted = 2
    /\ now > Now0
    /\ \E a \in fetch.upserted : assignments[a].dueDate # Null

\* C27: when the update of the task an unlinked assignment matches fails, the
\* run goes on to create a task for that assignment and counts the assignment
\* as created or as skipped
RelinkFallsThrough ==
    [][\A a \in AssignmentIds :
           (run[1].outcome[a] = "none" /\ run'[1].outcome[a] = "relinkFailed") =>
               run'[1].created + run'[1].skipped = run[1].created + run[1].skipped + 1]_vars

\* the tasks the cycle has created so far
NewTasks == {t \in LiveTasks : t \notin Cycle.before}

\* C28: a task the run creates is in the index from then on, so that the
\* tasks one run creates differ in their project or in their trimmed title
InRunDeduplication ==
    Cycle.pc # "idle" =>
        \A t, u \in NewTasks :
            (/\ tasks[t].project_id = tasks[u].project_id
             /\ Trim(tasks[t].content) = Trim(tasks[u].content)) => t = u

\* the tasks of a project that were there when the cycle began
TasksBefore(projectId) == {t \in Cycle.before : tasks[t].project_id = projectId}

\* C29: a listing of a project's tasks that fails does not fail the run; the
\* index holds for that project only tasks the run has created itself; for
\* every project that was listed it holds a task of each title that was there;
\* and the run creates a task in a listed project only for a title that no
\* task of the project had
IndexDegradesPerProject ==
    /\ Cycle.error # "" =>
           Cycle.storeFailed \/ Cycle.error = "Todoist configuration not found"
    /\ \A k \in Projects \X Titles :
           (k[1] \in Cycle.listed \ Cycle.indexed /\ Cycle.existingTasksByKey[k] # Null) =>
               Cycle.existingTasksByKey[k] \notin Cycle.before
    /\ \A p \in Cycle.indexed : \A t \in TasksBefore(p) :
           LET taskId == Cycle.existingTasksByKey[makeTaskKey(p, tasks[t].content)]
           IN /\ taskId # Null
              /\ tasks[taskId].project_id = p
              /\ Trim(tasks[taskId].content) = Trim(tasks[t].content)
    /\ \A a \in AssignmentIds :
           (Cycle.outcome[a] = "created" /\ ProjectOf(a) \in Cycle.indexed) =>
               \A t \in TasksBefore(ProjectOf(a)) :
                   Trim(tasks[t].content) # Trim(NameOf(a))

\* the listing of P1 has failed and that of P2 has not; the run has linked an
\* assignment of P2 to the task that was there and has created one in P1, and
\* has returned
IndexDegradesPerProjectWitness ==
    /\ Cycle.pc = "returned"
    /\ Cycle.listed = {"P1", "P2"}
    /\ Cycle.indexed = {"P2"}
    /\ \E a, b \in AssignmentIds :
           /\ ProjectOf(a) = "P2" /\ Cycle.outcome[a] = "relinked"
           /\ ProjectOf(b) = "P1" /\ Cycle.outcome[b] = "created"

\* the courses of the array that are still to do
CoursesLeft == {fetch.coursesTodo[i] : i \in 1..Len(fetch.coursesTodo)}

\* C30: a cycle goes through the active courses and the pending ones, through
\* each of them once even when both listings have it; when the request for the
\* pending courses fails it goes through the active ones; when the request for
\* the active courses fails it throws and goes through none
CourseListingMerge ==
    /\ fetch.pc \in {"courses", "returned"} =>
           /\ fetch.active # Failed
           /\ fetch.listed = IF fetch.pending = Failed THEN fetch.active
                             ELSE fetch.active \cup fetch.pending
           /\ fetch.pc = "courses" => CoursesLeft \subseteq fetch.listed
           /\ fetch.coursesProcessed + Len(fetch.coursesTodo) = Cardinality(fetch.listed)
    /\ fetch.active = Failed =>
           /\ fetch.pc = "thrown"
           /\ fetch.coursesProcessed = 0
           /\ fetch.upserted = {}

\* a cycle has returned for which Canvas listed the first course as active and
\* as pending and the second as pending, and the cycle went through two courses
CourseListingMergeWitness ==
    /\ fetch.pc = "returned"
    /\ fetch.active = {1}
    /\ fetch.pending = {1, 2}
    /\ fetch.coursesProcessed = 2
    /\ fetch.assignmentsUpserted = 2

(***************************************************************************)
(* Properties of the dates                                                 *)
(***************************************************************************)
\* the calendar day on which a due_at falls in America/Los_Angeles
PacificDay(dueAt) == LocalDay(dueAt, PacificOffset)

\* C23: normalizeDueDate, in services/todoistService.ts and in
\* services/canvasService.ts, gives null for a due_at that is null or does not
\* parse, and for every other one 12:00 UTC of the day on which the instant
\* falls in America/Los_Angeles, whatever its hour and the server's timezone
DateNormalizer ==
    calc.pc \in {"stored", "rendered"} =>
        \A result \in {calc.dueDate, calc.byHour} :
            IF calc.dueAt \in {Null, Unparseable} THEN result = Null
            ELSE result = HoursPerDay * PacificDay(calc.dueAt) + 12

\* C24: the stored due date, read with the local getters of a server in any
\* timezone, shows the calendar day the normalizer took, and lies as many days
\* from today as that day does
TimezoneStable ==
    (calc.pc = "rendered" /\ calc.dueDate # Null) =>
        /\ calc.rendered = PacificDay(calc.dueAt)
        /\ calc.diffDays = PacificDay(calc.dueAt) - LocalDay(now, tzOffset)

(***************************************************************************)
(* Properties of overlapping requests                                      *)
(***************************************************************************)

\* C21: single flight: no sync cycle is started for a user while an earlier
\* cycle of the same user is still in flight, so at no time are two cycles
\* of one user between their start and their end.
SingleFlight ==
    \A s, t \in Slots :
        (s # t /\ RunBusy(s) /\ RunBusy(t)) => run[s].userId # run[t].userId

(***************************************************************************)
(* Properties of the links under fetch cycles and overlapping sync cycles  *)
(***************************************************************************)

\* the tasks an earlier cycle created for assignment a that were there when
\* the cycle in flight began
MadeBefore(a) == {t \in Cycle.before : tasks[t].state = "live" /\ tasks[t].madeFor = a}

\* C31: fetch preserves links: a step of a fetch cycle leaves todoistTaskId
\* and lastSyncedAt of every row that is stored before and after it as they
\* are, and, when only fetch cycles come between successful sync cycles, a
\* sync cycle creates no task for an assignment that an earlier cycle created
\* and linked a task for.
FetchPreservesLinks ==
    /\ [][\A a \in AssignmentIds :
             (fetch' # fetch /\ assignments[a].exists /\ assignments'[a].exists)
             => /\ assignments'[a].todoistTaskId = assignments[a].todoistTaskId
                /\ assignments'[a].lastSyncedAt = assignments[a].lastSyncedAt]_vars
    /\ [](\A a \in AssignmentIds : Cycle.outcome[a] = "created" => MadeBefore(a) = {})

\* C32: no duplicate under overlap: however two sync cycles of one user over
\* the same courses interleave, Todoist never holds two tasks that were
\* created for the same assignment.
NoDuplicateUnderOverlap ==
    \A t, u \in LiveTasks :
        (tasks[t].madeFor # NoAssignmentId /\ tasks[t].madeFor = tasks[u].madeFor)
        => t = u

(***************************************************************************)
(* Properties of the auto-sync scheduler                                   *)
(***************************************************************************)

\* C33: one auto-sync run serves one user: within one execution of
\* runAutoSync the query for the mapped courses and the sync cycle are given
\* the user id the fetch cycle was given, also when the auto-sync endpoint is
\* called while the execution is suspended at an await.
OneUserPerAutoRun ==
    /\ auto.exec.queryUser \in {NotCalled, auto.exec.fetchUser}
    /\ auto.exec.syncUser \in {NotCalled, auto.exec.fetchUser}
    /\ (auto.exec.pc = "sync" /\ run[1].pc # "idle") => run[1].userId = auto.exec.fetchUser

\* C37: the scheduler invariant: at most one interval timer is set, and it is
\* the one autoSyncTimer holds; a timer is set exactly when
\* autoSyncIntervalMinutes > 0, which is exactly when autoSyncUserId is not
\* null; and a request to the endpoint that enables leaves the requesting user
\* and the given interval, 60 minutes when none or a non-positive one is
\* given, while one that disables leaves no timer, interval 0 and no user.
SchedulerInvariant ==
    /\ [](/\ Cardinality(auto.timers) <= 1
          /\ auto.timers = IF auto.autoSyncTimer = Null THEN {} ELSE {auto.autoSyncTimer}
          /\ auto.timers # {} <=> auto.autoSyncIntervalMinutes > 0
          /\ auto.autoSyncIntervalMinutes > 0 <=> auto.autoSyncUserId # NoUser)
    /\ [][\A u \in AutoUsers, enabled \in EnabledInputs, m \in IntervalInputs :
             (auto' # auto /\ PostAutoSync(u, enabled, m))
             => IF enabled = <<TRUE>>
                THEN /\ auto'.autoSyncUserId = u
                     /\ auto'.autoSyncIntervalMinutes =
                            IF m \in {Missing, <<0>>, <<-5>>} THEN 60 ELSE m[1]
                     /\ Cardinality(auto'.timers) = 1
                ELSE /\ auto'.autoSyncUserId = NoUser
                     /\ auto'.autoSyncIntervalMinutes = 0
                     /\ auto'.timers = {}]_vars

\* C37 witness: auto-sync is enabled for u2 with an interval of 5 minutes and
\* one timer is set, after it had been enabled for u1, whose execution of
\* runAutoSync is the last one that started.
SchedulerInvariantWitness ==
    /\ auto.autoSyncUserId = "u2"
    /\ auto.autoSyncIntervalMinutes = 5
    /\ auto.timers = {1}
    /\ auto.exec.fetchUser = "u1"

(***************************************************************************)
(* Properties of the requests that write one row                           *)
(***************************************************************************)

\* C38: ownership of the project link: a map-project request of a user
\* changes the todoistProjectId only of a course that user owns; a request
\* that names a course of another user leaves the course as it is.
OwnershipOfProjectLink ==
    [][\A u \in Users, c \in CourseIds, p \in Projects \cup {NoProject} :
          MapProject(u, c, p) => (courses[c].userId = u \/ courses'[c] = courses[c])]_vars

(***************************************************************************)
(* Properties of the SyncRun rows and of the counters                      *)
(***************************************************************************)

\* C36: the SyncRun state invariant: every SyncRun row has status RUNNING,
\* SUCCESS or ERROR, its finishedAt is null exactly when its status is
\* RUNNING, and the status of a row changes only from RUNNING to SUCCESS or
\* from RUNNING to ERROR.
SyncRunStateInvariant ==
    /\ [](\A i \in DOMAIN syncRuns :
             /\ syncRuns[i].status \in {"RUNNING", "SUCCESS", "ERROR"}
             /\ syncRuns[i].finishedAt = Null <=> syncRuns[i].status = "RUNNING")
    /\ [][\A i \in DOMAIN syncRuns :
             /\ i \in DOMAIN syncRuns'
             /\ syncRuns'[i].status # syncRuns[i].status
                => /\ syncRuns[i].status = "RUNNING"
                   /\ syncRuns'[i].status \in {"SUCCESS", "ERROR"}]_vars

\* C36 witness: one row has ended with SUCCESS, another with ERROR, and both
\* have their end timestamp.
SyncRunStateInvariantWitness ==
    \E i, j \in DOMAIN syncRuns :
        /\ syncRuns[i].status = "SUCCESS" /\ syncRuns[i].finishedAt # Null
        /\ syncRuns[j].status = "ERROR" /\ syncRuns[j].finishedAt # Null

\* the assignments the cycle has left with outcome `what`
With(what) == {a \in AssignmentIds : Cycle.outcome[a] = what}

\* C35: the counters of a run that completes normally: created is the number
\* of assignments the run linked to a task it created; skipped is the number
\* of relinks, of failed creates and of linked assignments whose update
\* failed; a linked assignment whose task was updated adds to neither, so
\* that created + skipped is at most the number of assignments of the courses
\* in scope; and the message of the SyncRun carries the two numbers returned.
CountersOfCompletedRun ==
    Cycle.pc = "returned" =>
        /\ Cycle.created = Cardinality(With("created"))
        /\ Cycle.skipped =
               Cardinality(With("relinked") \cup With("createFailed")
                           \cup With("createNotStored") \cup With("updateFailed")
                           \cup With("updateNotStored"))
        /\ Cycle.created + Cycle.skipped + Cardinality(With("updated"))
               <= Cardinality({a \in AssignmentIds :
                                  a[1] \in Cycle.courses /\ Cycle.assignments[a].exists})
        /\ Cycle.syncRunId # Null =>
               /\ syncRuns[Cycle.syncRunId].message.a = Cycle.created
               /\ syncRuns[Cycle.syncRunId].message.b = Cycle.skipped

\* C35 witness: a run has returned after it created a task for one assignment
\* and relinked another: created is 1 and skipped is 1.
CountersOfCompletedRunWitness ==
    /\ Cycle.pc = "returned"
    /\ Cycle.created = 1
    /\ Cycle.skipped = 1
    /\ With("relinked") # {}

(***************************************************************************)
(* Properties of the priority functions over several due dates             *)
(***************************************************************************)

\* C39: monotonic urgency: under every normalized configuration, the bucket
\* of a day offset is at least as urgent as the bucket of every later offset
\* and at most as urgent as the bucket of every earlier one.
MonotonicUrgency ==
    (calc.pc = "classified" /\ calc.dueDate # Null) =>
        \A d \in DiffDaysInputs :
            /\ d <= calc.diffDays =>
                   IndexOf(computeConceptualBucket(d, calc.settings)) <= IndexOf(calc.bucket)
            /\ d >= calc.diffDays =>
                   IndexOf(computeConceptualBucket(d, calc.settings)) >= IndexOf(calc.bucket)

\* C39 witness: a due date is classified p2 while an earlier offset is
\* classified p1 and a later one p4.
MonotonicUrgencyWitness ==
    /\ calc.pc = "classified" /\ calc.dueDate # Null
    /\ calc.bucket = "p2"
    /\ \E d \in DiffDaysInputs :
           d < calc.diffDays /\ d > 0 /\ computeConceptualBucket(d, calc.settings) = "p1"
    /\ \E d \in DiffDaysInputs :
           d > calc.diffDays /\ computeConceptualBucket(d, calc.settings) = "p4"

\* the assignments of the courses in scope of the cycle
InScope == {a \in AssignmentIds : a[1] \in Cycle.courses /\ Cycle.assignments[a].exists}

\* C34: convergence: when a sync run has returned and every call to Todoist
\* and every access to the store of it succeeded, every assignment of every
\* course in scope has a todoistTaskId, and the task it names exists in the
\* project of the course.
Convergence ==
    (Cycle.pc = "returned" /\ ~Cycle.apiFailed /\ ~Cycle.storeFailed) =>
        \A a \in InScope :
            /\ assignments[a].todoistTaskId # Null
            /\ tasks[assignments[a].todoistTaskId].state = "live"
            /\ tasks[assignments[a].todoistTaskId].project_id = ProjectOf(a)

====
